---- MODULE Spec2Model ----
(***************************************************************************)
(* Model of the evaluation harness of rag_financial_docs                   *)
(* (src/src/evaluator.py), of the query executor it drives                 *)
(* (src/src/rag_agent.py) and of the cost analysis                         *)
(* (src/src/cost_analyzer.py).                                             *)
(*                                                                         *)
(* Conventions                                                             *)
(*  - A Python str is a sequence of one-character strings.                 *)
(*  - Python None is None == <<>>.  A parameter of type Optional[str] or   *)
(*    Optional[List] is None or Some(v) == <<v>>, so that None, "" and []  *)
(*    stay three different values.                                         *)
(*  - A Python dict is a record / function; a key that is absent is        *)
(*    absent from its DOMAIN.                                              *)
(*  - A Python float is an exact rational [num, den] in lowest terms       *)
(*    (Frac); money is an integer number of 1e-8 USD, so that              *)
(*    tokens / 1_000_000 * price is exact.  Floating-point rounding is     *)
(*    not modelled.                                                        *)
(***************************************************************************)
EXTENDS Integers, Sequences, FiniteSets, TLC

VARIABLES
    test_queries,   \* evaluate_test_set argument: list of test-case dicts
    methods,        \* evaluate_test_set argument: list of strategy names
    pc,             \* position of the run: "case", "method", "done", "raised"
    ci,             \* index of the current test case (outer loop)
    mi,             \* index of the current method (inner loop)
    all_results,    \* the accumulating record list of the run
    aggregated,     \* result of _aggregate_results (dict method -> stats)
    fs,             \* durable storage: path -> content of the file
    ret,            \* value returned by evaluate_test_set (None before)
    exc,            \* exception that left evaluate_test_set ("none" if none)
    execLog,        \* history: one entry per invocation of the query executor
    peer,           \* a second, suspended evaluate_test_set call on the same
                    \* Evaluator (None when there is none): its locals
    args,           \* a call of one metric or cost function on its own: the
                    \* function's arguments (None when there is none); the
                    \* value it returns is in ret
    clock           \* time.time(), in seconds since the call under study
                    \* began

vars == <<test_queries, methods, pc, ci, mi, all_results, aggregated, fs, ret,
          exc, execLog, peer, args, clock>>

-----------------------------------------------------------------------------
(* Python values                                                           *)

None == <<>>

Some(v) == <<v>>

\* Python truthiness of an Optional[str] / Optional[List]: None, "" and []
\* are falsy.
Truthy(opt) == opt # None /\ opt[1] # <<>>

\* `opt or ""` / `opt or []`
OrEmpty(opt) == IF Truthy(opt) THEN opt[1] ELSE <<>>

\* dict.get(key): None when the key is absent
Get(d, key) == IF key \in DOMAIN d THEN Some(d[key]) ELSE None

RECURSIVE Gcd(_, _)
Gcd(a, b) == IF b = 0 THEN a ELSE Gcd(b, a % b)

\* a / b as a float: the exact rational in lowest terms (a >= 0, b > 0)
Frac(a, b) == LET g == Gcd(a, b) IN [num |-> a \div g, den |-> b \div g]

FracInt(n) == [num |-> n, den |-> 1]

FracAdd(x, y) == Frac(x.num * y.den + y.num * x.den, x.den * y.den)

FracLeq(x, y) == x.num * y.den <= y.num * x.den

FracLess(x, y) == x.num * y.den < y.num * x.den

\* x - y (for y <= x)
FracSub(x, y) == Frac(x.num * y.den - y.num * x.den, x.den * y.den)

\* x * n for an int n
FracMulInt(x, n) == Frac(x.num * n, x.den)

\* sum(list) of floats
FracSum(s) ==
    LET partial[i \in 0..Len(s)] ==
            IF i = 0 THEN FracInt(0) ELSE FracAdd(partial[i - 1], s[i])
    IN  partial[Len(s)]

\* sum(list) / len(list)
FracDivInt(x, n) == Frac(x.num, x.den * n)

\* sum(list) of ints
IntSum(s) ==
    LET partial[i \in 0..Len(s)] ==
            IF i = 0 THEN 0 ELSE partial[i - 1] + s[i]
    IN  partial[Len(s)]

-----------------------------------------------------------------------------
(* Strings                                                                 *)

UpperToLower ==
    [c \in {"A", "E", "G", "L", "M", "N", "R", "S", "U"} |->
        CASE c = "A" -> "a" [] c = "E" -> "e" [] c = "G" -> "g"
          [] c = "L" -> "l" [] c = "M" -> "m" [] c = "N" -> "n"
          [] c = "R" -> "r" [] c = "S" -> "s" [] c = "U" -> "u"]

\* str.lower()
Lower(s) ==
    [k \in 1..Len(s) |->
        IF s[k] \in DOMAIN UpperToLower THEN UpperToLower[s[k]] ELSE s[k]]

\* `a in b` for strings
IsSubstr(a, b) ==
    \E off \in 0..(Len(b) - Len(a)) :
        \A k \in 1..Len(a) : b[off + k] = a[k]

\* len(s.split()): number of maximal runs of non-whitespace characters
WordCount(s) ==
    Cardinality({k \in 1..Len(s) :
                    s[k] # " " /\ (k = 1 \/ s[k - 1] = " ")})

\* Evaluator.count_tokens: the tiktoken encoding is an external library; it
\* is abstracted to one token per character.
count_tokens(text) == Len(text)

-----------------------------------------------------------------------------
(* Metric evaluators (src/src/evaluator.py)                                *)

\* Faulty variant: the keyword is not lower-cased.
KeywordFound_CaseSensitive(kw, answer_lower) == IsSubstr(kw, answer_lower)

\* evaluate_answer_correctness(answer, expected_answer, expected_keywords);
\* expected_keywords is Optional (None or Some(list)).
KeywordFound(kw, answer_lower) == IsSubstr(Lower(kw), answer_lower)

\* Faulty variant: only `expected_lower in answer_lower` counts as a match.
evaluate_answer_correctness_OneWay(answer, expected_answer, expected_keywords) ==
    LET answer_lower == Lower(answer)
        expected_lower == Lower(expected_answer)
        exact_match == IsSubstr(expected_lower, answer_lower)
        kws == OrEmpty(expected_keywords)
        found == SelectSeq(kws, LAMBDA kw : KeywordFound(kw, answer_lower))
        missing == SelectSeq(kws, LAMBDA kw : ~KeywordFound(kw, answer_lower))
        keyword_score == IF Truthy(expected_keywords)
                         THEN Frac(Len(found), Len(kws))
                         ELSE FracInt(0)
    IN  [exact_match |-> exact_match,
         keyword_score |-> keyword_score,
         correctness_score |-> IF exact_match THEN FracInt(1) ELSE keyword_score,
         found_keywords |-> found,
         missing_keywords |-> missing]

evaluate_answer_correctness(answer, expected_answer, expected_keywords) ==
    LET answer_lower == Lower(answer)
        expected_lower == Lower(expected_answer)
        exact_match == \/ IsSubstr(expected_lower, answer_lower)
                       \/ IsSubstr(answer_lower, expected_lower)
        kws == OrEmpty(expected_keywords)
        found == SelectSeq(kws, LAMBDA kw : KeywordFound(kw, answer_lower))
        missing == SelectSeq(kws, LAMBDA kw : ~KeywordFound(kw, answer_lower))
        keyword_score == IF Truthy(expected_keywords)
                         THEN Frac(Len(found), Len(kws))
                         ELSE FracInt(0)
    IN  [exact_match |-> exact_match,
         keyword_score |-> keyword_score,
         correctness_score |-> IF exact_match THEN FracInt(1) ELSE keyword_score,
         found_keywords |-> found,
         missing_keywords |-> missing]

\* set(list)
ToSet(s) == {s[k] : k \in 1..Len(s)}

\* [c.get('source', '') for c in citations]
CitationSources(citations) ==
    [k \in 1..Len(citations) |->
        IF "source" \in DOMAIN citations[k] THEN citations[k].source ELSE ""]

\* Faulty variant: true and false positives are counted per citation, not
\* per distinct source.
evaluate_source_citation_accuracy_PerCitation(citations, expected_sources) ==
    IF citations = <<>>
    THEN [has_citations |-> FALSE,
          citation_count |-> 0,
          precision |-> FracInt(0),
          recall |-> FracInt(0)]
    ELSE
        LET citation_sources == CitationSources(citations)
            expected_set == ToSet(OrEmpty(expected_sources))
            hits == SelectSeq(citation_sources, LAMBDA c : c \in expected_set)
            false_negatives ==
                Cardinality(expected_set \ ToSet(citation_sources))
        IN  [has_citations |-> TRUE,
             citation_count |-> Len(citations),
             precision |-> IF ~Truthy(expected_sources) THEN FracInt(1)
                           ELSE Frac(Len(hits), Len(citations)),
             recall |-> IF ~Truthy(expected_sources) THEN FracInt(1)
                        ELSE Frac(Len(hits), Len(hits) + false_negatives),
             cited_sources |-> citation_sources]

\* Faulty variant: without expected sources precision and recall are 1.0
\* whether or not there are citations.
evaluate_source_citation_accuracy_Merged(citations, expected_sources) ==
    LET citation_sources == CitationSources(citations)
        expected_set == ToSet(OrEmpty(expected_sources))
        cited_set == ToSet(citation_sources)
        true_positives == Cardinality(expected_set \cap cited_set)
    IN  [has_citations |-> citations # <<>>,
         citation_count |-> Len(citations),
         precision |->
            IF ~Truthy(expected_sources) THEN FracInt(1)
            ELSE IF cited_set # {}
                 THEN Frac(true_positives, Cardinality(cited_set))
                 ELSE FracInt(0),
         recall |->
            IF ~Truthy(expected_sources) THEN FracInt(1)
            ELSE Frac(true_positives, Cardinality(expected_set))]

\* evaluate_source_citation_accuracy(citations, expected_sources);
\* expected_sources is Optional.
evaluate_source_citation_accuracy(citations, expected_sources) ==
    IF citations = <<>>
    THEN [has_citations |-> FALSE,
          citation_count |-> 0,
          precision |-> FracInt(0),
          recall |-> FracInt(0)]
    ELSE
        LET citation_sources == CitationSources(citations)
            expected_set == ToSet(OrEmpty(expected_sources))
            cited_set == ToSet(citation_sources)
            true_positives == Cardinality(expected_set \cap cited_set)
            false_positives == Cardinality(cited_set \ expected_set)
            false_negatives == Cardinality(expected_set \ cited_set)
            precision ==
                IF ~Truthy(expected_sources) THEN FracInt(1)
                ELSE IF true_positives + false_positives > 0
                     THEN Frac(true_positives, true_positives + false_positives)
                     ELSE FracInt(0)
            recall ==
                IF ~Truthy(expected_sources) THEN FracInt(1)
                ELSE IF true_positives + false_negatives > 0
                     THEN Frac(true_positives, true_positives + false_negatives)
                     ELSE FracInt(0)
        IN  [has_citations |-> TRUE,
             citation_count |-> Len(citations),
             precision |-> precision,
             recall |-> recall,
             cited_sources |-> citation_sources]

DefaultMinLength == 50

\* Faulty variant: the number of words is not looked at.
evaluate_response_completeness_CharsOnly(answer, min_length) ==
    LET word_count == WordCount(answer)
        char_count == Len(answer)
    IN  [word_count |-> word_count,
         char_count |-> char_count,
         token_count |-> count_tokens(answer),
         is_complete |-> char_count >= min_length,
         completeness_score |->
            IF min_length > 0
            THEN (IF char_count >= min_length THEN FracInt(1)
                  ELSE Frac(char_count, min_length))
            ELSE FracInt(1)]

\* evaluate_response_completeness(answer, min_length)
evaluate_response_completeness(answer, min_length) ==
    LET word_count == WordCount(answer)
        char_count == Len(answer)
    IN  [word_count |-> word_count,
         char_count |-> char_count,
         token_count |-> count_tokens(answer),
         is_complete |-> char_count >= min_length /\ word_count >= 10,
         completeness_score |->
            IF min_length > 0
            THEN (IF char_count >= min_length THEN FracInt(1)
                  ELSE Frac(char_count, min_length))
            ELSE FracInt(1)]

TargetP50 == 2000

TargetP95 == 5000

\* evaluate_latency(latency_ms, target_p50, target_p95)
evaluate_latency(latency_ms, target_p50, target_p95) ==
    [latency_ms |-> latency_ms,
     meets_p50 |-> latency_ms <= target_p50,
     meets_p95 |-> latency_ms <= target_p95,
     target_p50 |-> target_p50,
     target_p95 |-> target_p95]

\* Prices per 1M tokens in cents (0.15 USD = 15), so that a cost is an
\* integer number of 1e-8 USD: tokens / 1_000_000 * price.
Pricing ==
    [m \in {"gpt-4o-mini", "gpt-4o", "gpt-4"} |->
        CASE m = "gpt-4o-mini" -> [prompt |-> 15, completion |-> 60]
          [] m = "gpt-4o" -> [prompt |-> 250, completion |-> 1000]
          [] m = "gpt-4" -> [prompt |-> 3000, completion |-> 6000]]

\* evaluate_cost(prompt_tokens, completion_tokens, model)
evaluate_cost(prompt_tokens, completion_tokens, model) ==
    LET model_pricing == IF model \in DOMAIN Pricing
                         THEN Pricing[model] ELSE Pricing["gpt-4o-mini"]
        prompt_cost == prompt_tokens * model_pricing.prompt
        completion_cost == completion_tokens * model_pricing.completion
        total_cost == prompt_cost + completion_cost
    IN  [prompt_tokens |-> prompt_tokens,
         completion_tokens |-> completion_tokens,
         total_tokens |-> prompt_tokens + completion_tokens,
         prompt_cost_usd |-> prompt_cost,
         completion_cost_usd |-> completion_cost,
         total_cost_usd |-> total_cost,
         cost_per_1k_queries_usd |-> total_cost * 1000,
         model |-> model]

-----------------------------------------------------------------------------
(* The query executor (src/src/rag_agent.py)                               *)

\* RAGAgent.model_name (the constructor's default)
AgentModelName == "gpt-4o-mini"

\* The four query_* methods that evaluate_query dispatches to
MethodMap == {"zero_shot", "few_shot", "chain_of_thought", "structured_output"}

\* RAGAgent._get_citations(documents): a document is modelled by the source
\* of its metadata; chunk_index and preview are left out.
GetCitations(documents) ==
    [k \in 1..Len(documents) |-> [index |-> k, source |-> documents[k]]]

\* "I couldn't find relevant information to answer your question."
NoInfoAnswer == <<"n", "o", " ", "i", "n", "f", "o">>

\* RAGAgent.query_zero_shot / query_few_shot / query_chain_of_thought /
\* query_structured_output (the four share this shape).  What the vector
\* store and the LLM do is the environment's choice `env`:
\*   env.search_raises   similarity_search raised RuntimeError
\*   env.documents       the retrieved documents (a list of sources)
\*   env.llm_raises      llm.invoke raised
\*   env.answer          response.content
\*   env.latency_ms      measured wall time
\* The result is [raised |-> TRUE, ...] or [raised |-> FALSE, value |-> dict].
QueryMethod(query, include_citations, env) ==
    IF env.search_raises
    THEN [raised |-> TRUE, message |-> "Error performing similarity search"]
    ELSE IF env.documents = <<>>
    THEN [raised |-> FALSE,
          value |-> [answer |-> NoInfoAnswer,
                     citations |-> <<>>,
                     error |-> "No documents retrieved",
                     latency_ms |-> env.latency_ms]]
    ELSE IF env.llm_raises
    THEN [raised |-> TRUE, message |-> "LLM call failed"]
    ELSE [raised |-> FALSE,
          value |->
            IF include_citations
            THEN [answer |-> env.answer,
                  latency_ms |-> env.latency_ms,
                  retrieved_docs |-> Len(env.documents),
                  citations |-> GetCitations(env.documents)]
            ELSE [answer |-> env.answer,
                  latency_ms |-> env.latency_ms,
                  retrieved_docs |-> Len(env.documents)]]

-----------------------------------------------------------------------------
(* Evaluator.evaluate_query (src/src/evaluator.py)                         *)

\* str(citations), as far as count_tokens (one token per character) sees it:
\* brackets around one symbol per citation.
StrCitations(citations) ==
    <<"[">> \o [k \in 1..Len(citations) |-> citations[k].source] \o <<"]">>

\* Faulty variant: the failure is recorded with the success flag set.
FailureRecord_AsSuccess(query, method, error) ==
    [query |-> query, method |-> method, error |-> error, success |-> TRUE]

\* Faulty variant: the failure record carries a placeholder latency score.
FailureRecord_WithScores(query, method, error) ==
    [query |-> query, method |-> method, error |-> error, success |-> FALSE,
     latency |-> evaluate_latency(0, TargetP50, TargetP95)]

\* The record of a failed execution (lines 261-266 and 303-308)
FailureRecord(query, method, error) ==
    [query |-> query, method |-> method, error |-> error, success |-> FALSE]

\* Faulty variant: `is not None` instead of truthiness.
HasExpectation_NotNone(expected_answer, expected_keywords) ==
    expected_answer # None \/ expected_keywords # None

\* `if expected_answer or expected_keywords` (line 275)
HasExpectation(expected_answer, expected_keywords) ==
    Truthy(expected_answer) \/ Truthy(expected_keywords)

\* The record of a successful execution (lines 268-300); `result` is the
\* dict the executor returned, `expect` the three Optional expectations
\* [expected_answer, expected_keywords, expected_sources].
SuccessRecord(query, method, expect, result) ==
    LET expected_answer == expect.expected_answer
        expected_keywords == expect.expected_keywords
        expected_sources == expect.expected_sources
        answer == result.answer
        citations == IF "citations" \in DOMAIN result
                     THEN result.citations ELSE <<>>
        latency_ms == IF "latency_ms" \in DOMAIN result
                      THEN result.latency_ms ELSE 0
        correctness ==
            IF HasExpectation(expected_answer, expected_keywords)
            THEN evaluate_answer_correctness(
                     answer, OrEmpty(expected_answer), expected_keywords)
            ELSE None
        prompt_tokens == count_tokens(query \o StrCitations(citations))
        completion_tokens == count_tokens(answer)
    IN  [query |-> query,
         method |-> method,
         success |-> TRUE,
         answer |-> answer,
         correctness |-> correctness,
         citation_accuracy |->
            evaluate_source_citation_accuracy(citations, expected_sources),
         completeness |->
            evaluate_response_completeness(answer, DefaultMinLength),
         latency |-> evaluate_latency(latency_ms, TargetP50, TargetP95),
         cost |-> evaluate_cost(prompt_tokens, completion_tokens,
                                AgentModelName),
         retrieved_docs |-> IF "retrieved_docs" \in DOMAIN result
                            THEN result.retrieved_docs ELSE 0]

\* Faulty variant: the measured latency leaks into another field of the
\* record.
evaluate_query_TimingLeaks(query, method, expect, outcome) ==
    IF outcome.raised
    THEN FailureRecord(query, method, outcome.message)
    ELSE IF "error" \in DOMAIN outcome.value
    THEN FailureRecord(query, method, outcome.value.error)
    ELSE [SuccessRecord(query, method, expect, outcome.value)
            EXCEPT !.retrieved_docs = outcome.value.latency_ms]

\* evaluate_query for a method of method_map, given what the executor did
\* (`outcome` is the result of QueryMethod): the try block of lines 257-308.
evaluate_query(query, method, expect, outcome) ==
    IF outcome.raised
    THEN FailureRecord(query, method, outcome.message)
    ELSE IF "error" \in DOMAIN outcome.value
    THEN FailureRecord(query, method, outcome.value.error)
    ELSE SuccessRecord(query, method, expect, outcome.value)

-----------------------------------------------------------------------------
(* Evaluator._aggregate_results (src/src/evaluator.py)                     *)

\* sorted(list) of numbers, ascending (a stable sort): the element at
\* position k moves to the position given by the number of elements that
\* sort before it.
SortedPosition(s, k) ==
    Cardinality({j \in 1..Len(s) : s[j] < s[k] \/ (s[j] = s[k] /\ j < k)}) + 1

Sorted(s) ==
    [i \in 1..Len(s) |-> s[CHOOSE k \in 1..Len(s) : SortedPosition(s, k) = i]]

\* [r for r in results if r.get('method') == method]
AttemptedResults(results, method) ==
    SelectSeq(results, LAMBDA r : "method" \in DOMAIN r /\ r.method = method)

\* [r for r in results if r.get('method') == method and r.get('success')]
MethodResults(results, method) ==
    SelectSeq(results, LAMBDA r : /\ "method" \in DOMAIN r
                                  /\ r.method = method
                                  /\ "success" \in DOMAIN r
                                  /\ r.success)

\* Faulty variant: the rate is taken over the successful records only.
SuccessRate_OverSuccesses(results, method) ==
    Frac(Len(MethodResults(results, method)),
         Len(MethodResults(results, method)))

\* len(method_results) / len([r for r in results if r.get('method') == method])
SuccessRate(results, method) ==
    Frac(Len(MethodResults(results, method)),
         Len(AttemptedResults(results, method)))

\* sum(xs) / len(xs) if xs else 0, for a list of floats
MeanOrZero(xs) ==
    IF xs # <<>> THEN FracDivInt(FracSum(xs), Len(xs)) ELSE FracInt(0)

\* Faulty variant: the lower median, index (n-1)//2.
P50_LowerMedian(latencies) ==
    IF latencies # <<>>
    THEN Sorted(latencies)[((Len(latencies) - 1) \div 2) + 1] ELSE 0

\* sorted(latencies)[len(latencies)//2] if latencies else 0
P50(latencies) ==
    IF latencies # <<>>
    THEN Sorted(latencies)[(Len(latencies) \div 2) + 1] ELSE 0

\* Faulty variant: the smallest latency.
P95_Lowest(latencies) ==
    IF latencies # <<>> THEN Sorted(latencies)[1] ELSE 0

\* sorted(latencies)[int(len(latencies)*0.95)] if latencies else 0
P95(latencies) ==
    IF latencies # <<>>
    THEN Sorted(latencies)[((Len(latencies) * 95) \div 100) + 1] ELSE 0

\* [r['correctness']['correctness_score'] for r in method_results
\*  if 'correctness' in r and r['correctness'] is not None]
CorrectnessScores(method_results) ==
    LET with == SelectSeq(method_results,
                    LAMBDA r : "correctness" \in DOMAIN r
                               /\ r.correctness # None)
    IN  [k \in 1..Len(with) |-> with[k].correctness.correctness_score]

\* Faulty variant: a zero instead of None when no record carries a score.
AvgCorrectness_Zero(correctness_scores) ==
    IF correctness_scores # <<>>
    THEN FracDivInt(FracSum(correctness_scores), Len(correctness_scores))
    ELSE FracInt(0)

\* sum(correctness_scores) / len(correctness_scores) if correctness_scores
\* else None
AvgCorrectness(correctness_scores) ==
    IF correctness_scores # <<>>
    THEN FracDivInt(FracSum(correctness_scores), Len(correctness_scores))
    ELSE None

\* The entry aggregated[method] (lines 376-406)
MethodStats(results, method) ==
    LET method_results == MethodResults(results, method)
        withLatency == SelectSeq(method_results,
                                 LAMBDA r : "latency" \in DOMAIN r)
        latencies == [k \in 1..Len(withLatency) |->
                         withLatency[k].latency.latency_ms]
        withCost == SelectSeq(method_results, LAMBDA r : "cost" \in DOMAIN r)
        costs == [k \in 1..Len(withCost) |-> withCost[k].cost.total_cost_usd]
        withCit == SelectSeq(method_results,
                             LAMBDA r : "citation_accuracy" \in DOMAIN r)
        citation_precisions ==
            [k \in 1..Len(withCit) |-> withCit[k].citation_accuracy.precision]
        withCompl == SelectSeq(method_results,
                               LAMBDA r : "completeness" \in DOMAIN r)
        completeness_scores ==
            [k \in 1..Len(withCompl) |->
                withCompl[k].completeness.completeness_score]
    IN  [total_queries |-> Len(method_results),
         success_rate |-> SuccessRate(results, method),
         avg_latency_ms |->
            MeanOrZero([k \in 1..Len(latencies) |-> FracInt(latencies[k])]),
         p50_latency_ms |-> P50(latencies),
         p95_latency_ms |-> P95(latencies),
         avg_cost_usd |->
            MeanOrZero([k \in 1..Len(costs) |-> FracInt(costs[k])]),
         total_cost_usd |-> IntSum(costs),
         cost_per_1k_queries_usd |->
            IF costs # <<>>
            THEN Frac(IntSum(costs) * 1000, Len(costs)) ELSE FracInt(0),
         avg_correctness |->
            AvgCorrectness(CorrectnessScores(method_results)),
         avg_citation_precision |-> MeanOrZero(citation_precisions),
         avg_completeness |-> MeanOrZero(completeness_scores)]

\* Faulty variant: a method is skipped only when it has no record at all.
AggregatedMethods_Attempted(results, ms) ==
    {m \in ToSet(ms) : AttemptedResults(results, m) # <<>>}

\* The methods that get an entry: those with at least one successful record
\* (`if not method_results: continue`)
AggregatedMethods(results, ms) ==
    {m \in ToSet(ms) : MethodResults(results, m) # <<>>}

_aggregate_results(results, ms) ==
    [m \in AggregatedMethods(results, ms) |-> MethodStats(results, m)]

-----------------------------------------------------------------------------
(* Persistence (json.dump to output_dir / "evaluation_results.json")       *)

\* str(self.output_dir / "evaluation_results.json")
OutputFile == "evaluation_results/evaluation_results.json"

JsonNull == [json |-> "null"]

\* json.dump of one record of all_results: None becomes null
JsonOfResult(r) ==
    IF "correctness" \in DOMAIN r /\ r.correctness = None
    THEN [r EXCEPT !.correctness = JsonNull] ELSE r

\* json.dump of one AggregatedStats entry
JsonOfStats(st) ==
    IF st.avg_correctness = None
    THEN [st EXCEPT !.avg_correctness = JsonNull] ELSE st

\* Faulty variant: only the successful records are written.
JsonDump_SuccessesOnly(tq, ms, results, agg) ==
    LET kept == SelectSeq(results, LAMBDA r : r.success)
    IN  [test_queries |-> tq,
         methods |-> ms,
         results |-> [k \in 1..Len(kept) |-> JsonOfResult(kept[k])],
         aggregated |-> [m \in DOMAIN agg |-> JsonOfStats(agg[m])]]

\* json.dump({'test_queries': ..., 'methods': ..., 'results': ...,
\*            'aggregated': ...}, f, indent=2)
JsonDump(tq, ms, results, agg) ==
    [test_queries |-> tq,
     methods |-> ms,
     results |-> [k \in 1..Len(results) |-> JsonOfResult(results[k])],
     aggregated |-> [m \in DOMAIN agg |-> JsonOfStats(agg[m])]]

\* What json.load gives back for a stored record / stats entry / bundle
JsonToResult(j) ==
    IF "correctness" \in DOMAIN j /\ j.correctness = JsonNull
    THEN [j EXCEPT !.correctness = None] ELSE j

JsonToStats(j) ==
    IF j.avg_correctness = JsonNull
    THEN [j EXCEPT !.avg_correctness = None] ELSE j

JsonLoad(doc) ==
    [test_queries |-> doc.test_queries,
     methods |-> doc.methods,
     results |-> [k \in 1..Len(doc.results) |-> JsonToResult(doc.results[k])],
     aggregated |->
        [m \in DOMAIN doc.aggregated |-> JsonToStats(doc.aggregated[m])]]

\* The file as a previous run left it (an empty bundle)
PriorContent == JsonDump(<<>>, <<>>, <<>>, <<>>)

-----------------------------------------------------------------------------
(* CostAnalyzer (src/src/cost_analyzer.py)                                 *)

\* cost_info.get(key, 0)
GetOrZero(d, key) == IF key \in DOMAIN d THEN d[key] ELSE 0

\* Faulty variant: the averages are taken over the records that carry cost
\* data (over one record when none does).
RecordCount_CostBearing(evaluation_results) ==
    LET withCost == SelectSeq(evaluation_results,
                              LAMBDA r : "cost" \in DOMAIN r)
    IN  IF withCost = <<>> THEN 1 ELSE Len(withCost)

\* len(evaluation_results), the divisor of the three averages (lines 99-101)
RecordCount(evaluation_results) == Len(evaluation_results)

\* Faulty variant: `>=` instead of `>`.
MainCostDriver_TieIsPrompt(prompt_percentage, completion_percentage) ==
    IF FracLeq(completion_percentage, prompt_percentage)
    THEN "prompt" ELSE "completion"

\* 'prompt' if prompt_percentage > completion_percentage else 'completion'
MainCostDriver(prompt_percentage, completion_percentage) ==
    IF FracLess(completion_percentage, prompt_percentage)
    THEN "prompt" ELSE "completion"

\* CostAnalyzer.analyze_cost_drivers(evaluation_results)
analyze_cost_drivers(evaluation_results) ==
    LET withCost == SelectSeq(evaluation_results,
                              LAMBDA r : "cost" \in DOMAIN r)
        total_prompt_tokens ==
            IntSum([k \in 1..Len(withCost) |->
                        GetOrZero(withCost[k].cost, "prompt_tokens")])
        total_completion_tokens ==
            IntSum([k \in 1..Len(withCost) |->
                        GetOrZero(withCost[k].cost, "completion_tokens")])
        total_cost ==
            IntSum([k \in 1..Len(withCost) |->
                        GetOrZero(withCost[k].cost, "total_cost_usd")])
        n == RecordCount(evaluation_results)
        avg_prompt_tokens ==
            IF evaluation_results # <<>>
            THEN Frac(total_prompt_tokens, n) ELSE FracInt(0)
        avg_completion_tokens ==
            IF evaluation_results # <<>>
            THEN Frac(total_completion_tokens, n) ELSE FracInt(0)
        avg_cost ==
            IF evaluation_results # <<>>
            THEN Frac(total_cost, n) ELSE FracInt(0)
        prompt_percentage ==
            IF total_prompt_tokens + total_completion_tokens > 0
            THEN Frac(total_prompt_tokens * 100,
                      total_prompt_tokens + total_completion_tokens)
            ELSE FracInt(0)
        completion_percentage == FracSub(FracInt(100), prompt_percentage)
    IN  [total_queries |-> Len(evaluation_results),
         total_cost_usd |-> total_cost,
         avg_cost_per_query_usd |-> avg_cost,
         cost_per_1k_queries_usd |-> FracMulInt(avg_cost, 1000),
         avg_prompt_tokens |-> avg_prompt_tokens,
         avg_completion_tokens |-> avg_completion_tokens,
         prompt_cost_percentage |-> prompt_percentage,
         completion_cost_percentage |-> completion_percentage,
         main_cost_driver |->
            MainCostDriver(prompt_percentage, completion_percentage)]

\* cost_analysis.get(key, 0) for a float-valued key
GetFracOrZero(d, key) == IF key \in DOMAIN d THEN d[key] ELSE FracInt(0)

\* f"{x * 0.3:.1f}%" as the number of tenths of a per cent: x * 3 rounded
\* to the nearest integer, a tie going to the even one.  (Where x * 0.3 has
\* no exact float, Python rounds the float that represents it; such ties
\* are not modelled.)
SavingsTenths(x) ==
    LET n == x.num * 3
        q == n \div x.den
        r == n % x.den
    IN  IF 2 * r > x.den \/ (2 * r = x.den /\ q % 2 = 1) THEN q + 1 ELSE q

\* 0.01 USD in units of 1e-8 USD (line 149)
SignificantCost == 1000000

\* Faulty variant: `>=` instead of `>`.
IsSignificantCost_Inclusive(current_cost) ==
    FracLeq(FracInt(SignificantCost), current_cost)

\* `current_cost > 0.01` (line 149)
IsSignificantCost(current_cost) ==
    FracLess(FracInt(SignificantCost), current_cost)

\* CostAnalyzer.generate_optimization_recommendations(cost_analysis,
\* target_cost_reduction).  Of each recommendation the strategy and the
\* potential savings are kept; 'description' and 'implementation' are fixed
\* texts.  target_cost (line 137) is computed and never used.
generate_optimization_recommendations(cost_analysis, target_cost_reduction) ==
    LET current_cost == GetFracOrZero(cost_analysis, "avg_cost_per_query_usd")
        prompt_share == GetFracOrZero(cost_analysis, "prompt_cost_percentage")
        reduce_prompt ==
            IF FracLess(FracInt(60), prompt_share)
            THEN << [strategy |-> "reduce_prompt_size",
                     potential_savings |->
                        [tenths |-> SavingsTenths(prompt_share),
                         text |-> "%"]] >>
            ELSE <<>>
        cheaper_model ==
            IF IsSignificantCost(current_cost)
            THEN << [strategy |-> "use_cheaper_model",
                     potential_savings |-> [text |-> "60-80%"]] >>
            ELSE <<>>
    IN  reduce_prompt \o cheaper_model \o
        << [strategy |-> "implement_caching",
            potential_savings |-> [text |-> "30-50% for repeated queries"]],
           [strategy |-> "optimize_chunking",
            potential_savings |-> [text |-> "10-20%"]],
           [strategy |-> "batch_processing",
            potential_savings |-> [text |-> "15-25%"]] >>

\* CostAnalyzer.pricing: prices per 1M tokens in cents, as in Pricing
AnalyzerPricing ==
    [m \in {"gpt-4o-mini", "gpt-4o", "gpt-4", "text-embedding-3-small"} |->
        CASE m = "gpt-4o-mini" -> [prompt |-> 15, completion |-> 60]
          [] m = "gpt-4o" -> [prompt |-> 250, completion |-> 1000]
          [] m = "gpt-4" -> [prompt |-> 3000, completion |-> 6000]
          [] m = "text-embedding-3-small" -> [prompt |-> 2, completion |-> 0]]

\* Faulty variant: an unknown model is priced as the most expensive one.
ModelPricing_FallbackToGpt4(model) ==
    IF model \in DOMAIN AnalyzerPricing
    THEN AnalyzerPricing[model] ELSE AnalyzerPricing["gpt-4"]

\* self.pricing.get(self.model, self.pricing["gpt-4o-mini"]) (line 54)
ModelPricing(model) ==
    IF model \in DOMAIN AnalyzerPricing
    THEN AnalyzerPricing[model] ELSE AnalyzerPricing["gpt-4o-mini"]

\* Faulty variant: the embedding cost is reported but left out of the total.
calculate_query_cost_NoEmbedding(model, prompt_tokens, completion_tokens, embedding_tokens) ==
    LET model_pricing == ModelPricing(model)
        embedding_pricing == AnalyzerPricing["text-embedding-3-small"]
        prompt_cost == prompt_tokens * model_pricing.prompt
        completion_cost == completion_tokens * model_pricing.completion
        embedding_cost == embedding_tokens * embedding_pricing.prompt
        total_cost == prompt_cost + completion_cost
    IN  [prompt_tokens |-> prompt_tokens,
         completion_tokens |-> completion_tokens,
         embedding_tokens |-> embedding_tokens,
         prompt_cost_usd |-> prompt_cost,
         completion_cost_usd |-> completion_cost,
         embedding_cost_usd |-> embedding_cost,
         total_cost_usd |-> total_cost,
         cost_per_1k_queries_usd |-> total_cost * 1000]

\* CostAnalyzer.calculate_query_cost(prompt_tokens, completion_tokens,
\* embedding_tokens) of an analyzer built with CostAnalyzer(model); costs in
\* units of 1e-8 USD.
calculate_query_cost(model, prompt_tokens, completion_tokens, embedding_tokens) ==
    LET model_pricing == ModelPricing(model)
        embedding_pricing == AnalyzerPricing["text-embedding-3-small"]
        prompt_cost == prompt_tokens * model_pricing.prompt
        completion_cost == completion_tokens * model_pricing.completion
        embedding_cost == embedding_tokens * embedding_pricing.prompt
        total_cost == prompt_cost + completion_cost + embedding_cost
    IN  [prompt_tokens |-> prompt_tokens,
         completion_tokens |-> completion_tokens,
         embedding_tokens |-> embedding_tokens,
         prompt_cost_usd |-> prompt_cost,
         completion_cost_usd |-> completion_cost,
         embedding_cost_usd |-> embedding_cost,
         total_cost_usd |-> total_cost,
         cost_per_1k_queries_usd |-> total_cost * 1000]

\* Default of current_volume (line 186)
DefaultVolume == 1000

\* Faulty variant: `>=` instead of `>`.
IsCostProhibitive_Inclusive(scaled_cost) == FracLeq(FracInt(1000), scaled_cost)

\* `scaled_cost > 1000` (lines 211 and 231); scaled_cost is a float in USD
IsCostProhibitive(scaled_cost) == FracLess(FracInt(1000), scaled_cost)

\* CostAnalyzer.estimate_10x_scale_costs(current_cost_per_1k,
\* current_volume).  current_cost_per_1k is a float in USD.  Of each
\* bottleneck the component is kept; 'issue' and 'solution' are fixed texts.
estimate_10x_scale_costs(current_cost_per_1k, current_volume) ==
    LET scaled_volume == current_volume * 10
        scaled_cost ==
            FracMulInt(FracDivInt(current_cost_per_1k, 1000), scaled_volume)
        vector_db == IF scaled_volume > 10000
                     THEN << [component |-> "Vector Database"] >> ELSE <<>>
        llm_api == IF IsCostProhibitive(scaled_cost)
                   THEN << [component |-> "LLM API"] >> ELSE <<>>
    IN  [current_volume |-> current_volume,
         scaled_volume |-> scaled_volume,
         current_cost_per_1k_usd |-> current_cost_per_1k,
         scaled_monthly_cost_usd |-> FracMulInt(scaled_cost, 30),
         scaled_daily_cost_usd |-> scaled_cost,
         bottlenecks |->
            vector_db \o llm_api
            \o << [component |-> "Embedding Generation"] >>,
         optimization_priority |->
            IF IsCostProhibitive(scaled_cost) THEN "cost" ELSE "throughput"]

-----------------------------------------------------------------------------
(* Inputs                                                                  *)

MaxCases == 2

MaxMethods == 2

\* Cap on the number of (test case, method) pairs of one run
MaxPairs == 4

Q1 == <<"n", "e", "t", "?">>

Q2 == <<"e", "p", "s">>

Kw_net == <<"n", "e", "t">>

Kw_loss == <<"L", "o", "s", "s">>

\* Test cases a caller may pass: with every expectation, with none, with
\* expectations that are supplied but empty, and without the 'query' key.
TestCasePool ==
    { [query |-> Q1,
       expected_answer |-> <<"n", "e", "t", " ", "u", "p">>,
       expected_keywords |-> <<Kw_net, Kw_loss>>,
       expected_sources |-> <<"a.txt", "c.txt">>],
      [query |-> Q2],
      [query |-> Q2, expected_answer |-> <<>>, expected_keywords |-> <<>>],
      [expected_answer |-> Kw_net] }

\* Strategy names a caller may request: known ones and an unknown one
RequestedNames == {"zero_shot", "few_shot", "best_shot"}

\* methods = None selects the four known methods (lines 325-326)
DefaultMethods ==
    <<"zero_shot", "few_shot", "chain_of_thought", "structured_output">>

SeqsUpTo(S, n) == UNION {[1..k -> S] : k \in 0..n}

\* What the vector store and the LLM may do during one executor call
Environments ==
    { [search_raises |-> TRUE, documents |-> <<>>, llm_raises |-> FALSE,
       answer |-> <<>>, latency_ms |-> 0],
      [search_raises |-> FALSE, documents |-> <<>>, llm_raises |-> FALSE,
       answer |-> <<>>, latency_ms |-> 40],
      [search_raises |-> FALSE, documents |-> <<"a.txt">>, llm_raises |-> TRUE,
       answer |-> <<>>, latency_ms |-> 0],
      [search_raises |-> FALSE, documents |-> <<"a.txt">>, llm_raises |-> FALSE,
       answer |-> <<"N", "e", "t", " ", "u", "p", " ", "9">>,
       latency_ms |-> 1000],
      [search_raises |-> FALSE, documents |-> <<"a.txt", "b.txt", "a.txt">>,
       llm_raises |-> FALSE,
       answer |-> <<"l", "o", "s", "s">>, latency_ms |-> 3000],
      [search_raises |-> FALSE, documents |-> <<"b.txt">>, llm_raises |-> FALSE,
       answer |-> <<>>, latency_ms |-> 6000] }

-----------------------------------------------------------------------------
(* Evaluator.evaluate_test_set (src/src/evaluator.py)                      *)

Init ==
    /\ test_queries \in SeqsUpTo(TestCasePool, MaxCases)
    /\ methods \in {DefaultMethods} \cup SeqsUpTo(RequestedNames, MaxMethods)
    /\ Len(test_queries) * Len(methods) <= MaxPairs
    /\ pc = "case"
    /\ ci = 1
    /\ mi = 1
    /\ all_results = <<>>
    /\ aggregated = <<>>
    /\ fs = [p \in {OutputFile} |-> PriorContent]
    /\ ret = None
    /\ exc = "none"
    /\ execLog = <<>>
    /\ peer = None
    /\ clock = 0
    /\ args = None

\* test_case.get('expected_answer') etc. (lines 332-334)
Expectations(test_case) ==
    [expected_answer |-> Get(test_case, "expected_answer"),
     expected_keywords |-> Get(test_case, "expected_keywords"),
     expected_sources |-> Get(test_case, "expected_sources")]

\* Line 331 for the next test case: query = test_case['query'] raises
\* KeyError, which leaves evaluate_test_set.
RaiseKeyError ==
    /\ pc = "case"
    /\ ci <= Len(test_queries)
    /\ "query" \notin DOMAIN test_queries[ci]
    /\ pc' = "raised"
    /\ exc' = "KeyError"
    /\ UNCHANGED <<test_queries, methods, ci, mi, all_results, aggregated, fs,
                   ret, execLog>>
    /\ UNCHANGED <<peer, args, clock>>

\* Lines 330-336: the test case has a query; enter the loop over methods
\* (or go on to the next test case when no method is requested).
BeginCase ==
    /\ pc = "case"
    /\ ci <= Len(test_queries)
    /\ "query" \in DOMAIN test_queries[ci]
    /\ IF methods = <<>>
       THEN /\ ci' = ci + 1
            /\ UNCHANGED <<pc, mi>>
       ELSE /\ pc' = "method"
            /\ mi' = 1
            /\ UNCHANGED ci
    /\ UNCHANGED <<test_queries, methods, all_results, aggregated, fs, ret, exc,
                   execLog>>
    /\ UNCHANGED <<peer, args, clock>>

\* Faulty variant: the method is looked up only after a call of the executor
\* and after the output file was opened for writing.
RaiseValueError_AfterCall ==
    /\ pc = "method"
    /\ methods[mi] \notin MethodMap
    /\ pc' = "raised"
    /\ exc' = "ValueError"
    /\ execLog' = Append(execLog, [case |-> ci, method |-> mi,
                                   kind |-> "raised", documents |-> 0])
    /\ fs' = [fs EXCEPT ![OutputFile] = None]
    /\ UNCHANGED <<test_queries, methods, ci, mi, all_results, aggregated,
                   ret>>
    /\ UNCHANGED <<peer, args, clock>>

\* Lines 251-252 inside evaluate_query: an unknown method raises ValueError
\* before the executor is called; nothing catches it.
RaiseValueError ==
    /\ pc = "method"
    /\ methods[mi] \notin MethodMap
    /\ pc' = "raised"
    /\ exc' = "ValueError"
    /\ UNCHANGED <<test_queries, methods, ci, mi, all_results, aggregated, fs,
                   ret, execLog>>
    /\ UNCHANGED <<peer, args, clock>>

\* Faulty variant: the executor is called a second time after it raised.
ExecutorCalls_Retry(c, m, outcome, env) ==
    LET call == [case |-> c, method |-> m,
                 kind |-> IF outcome.raised THEN "raised"
                          ELSE IF "error" \in DOMAIN outcome.value THEN "error"
                          ELSE "ok",
                 documents |-> IF env.search_raises THEN 0
                               ELSE Len(env.documents)]
    IN  IF outcome.raised THEN <<call, call>> ELSE <<call>>

\* What one evaluate_query call adds to the history of executor calls:
\* query_func is called once (line 258), and nothing calls it again after a
\* failure.
ExecutorCalls(c, m, outcome, env) ==
    << [case |-> c,
        method |-> m,
        kind |-> IF outcome.raised THEN "raised"
                 ELSE IF "error" \in DOMAIN outcome.value THEN "error"
                 ELSE "ok",
        documents |-> IF env.search_raises THEN 0 ELSE Len(env.documents)] >>

\* Lines 337-340: one evaluate_query call with one executor call, and the
\* append of its record.
EvaluatePair ==
    /\ pc = "method"
    /\ methods[mi] \in MethodMap
    /\ \E env \in Environments :
         LET test_case == test_queries[ci]
             outcome == QueryMethod(test_case.query, TRUE, env)
             result == evaluate_query(test_case.query, methods[mi],
                                      Expectations(test_case), outcome)
         IN  /\ all_results' = Append(all_results, result)
             /\ execLog' = execLog \o ExecutorCalls(ci, mi, outcome, env)
    /\ IF mi < Len(methods)
       THEN /\ mi' = mi + 1
            /\ UNCHANGED <<pc, ci>>
       ELSE /\ pc' = "case"
            /\ ci' = ci + 1
            /\ mi' = 1
    /\ UNCHANGED <<test_queries, methods, aggregated, fs, ret, exc>>
    /\ UNCHANGED <<peer, args, clock>>

\* Lines 342-359: aggregate, save the bundle, return.
Finish ==
    /\ pc = "case"
    /\ ci > Len(test_queries)
    /\ LET agg == _aggregate_results(all_results, methods)
       IN  /\ aggregated' = agg
           /\ fs' = [fs EXCEPT ![OutputFile] =
                        JsonDump(test_queries, methods, all_results, agg)]
           /\ ret' = [individual_results |-> all_results,
                      aggregated |-> agg,
                      output_file |-> OutputFile]
    /\ pc' = "done"
    /\ UNCHANGED <<test_queries, methods, ci, mi, all_results, exc, execLog>>
    /\ UNCHANGED <<peer, args, clock>>

Next ==
    \/ RaiseKeyError
    \/ BeginCase
    \/ RaiseValueError
    \/ EvaluatePair
    \/ Finish

Spec == Init /\ [][Next]_vars

-----------------------------------------------------------------------------
(* _aggregate_results on its own: record lists of up to MaxRecords records *)

MaxRecords == 5

LatencyPool == {100, 200, 300, 400, 500}

NoExpectations ==
    [expected_answer |-> None, expected_keywords |-> None,
     expected_sources |-> None]

\* An executor call that succeeds with the given latency
EnvWithLatency(l) ==
    [search_raises |-> FALSE, documents |-> <<"a.txt">>, llm_raises |-> FALSE,
     answer |-> <<"u", "p">>, latency_ms |-> l]

\* The record evaluate_query produces for "zero_shot" from such a call
SuccessWithLatency(l) ==
    evaluate_query(Q2, "zero_shot", NoExpectations,
                   QueryMethod(Q2, TRUE, EnvWithLatency(l)))

\* Records of "zero_shot": successes with each latency of the pool, and a
\* failure
AggRecordPool ==
    {SuccessWithLatency(l) : l \in LatencyPool}
    \cup {FailureRecord(Q2, "zero_shot", "No documents retrieved")}

\* Lengths at which int(n * 0.95) is not the last index
LongRunLengths == {20, 21}

\* A list of n successful records with n different latencies, unsorted
LongRun(n) ==
    [k \in 1..n |-> SuccessWithLatency(100 * (((k * 7) % 41) + 1))]

InitAgg ==
    /\ all_results \in SeqsUpTo(AggRecordPool, MaxRecords)
                        \cup {LongRun(n) : n \in LongRunLengths}
    /\ methods = <<"zero_shot", "few_shot">>
    /\ pc = "aggregate"
    /\ test_queries = <<>>
    /\ ci = 1
    /\ mi = 1
    /\ aggregated = <<>>
    /\ fs = [p \in {OutputFile} |-> PriorContent]
    /\ ret = None
    /\ exc = "none"
    /\ execLog = <<>>
    /\ peer = None
    /\ clock = 0
    /\ args = None

\* One call of _aggregate_results(all_results, methods)
Aggregate ==
    /\ pc = "aggregate"
    /\ aggregated' = _aggregate_results(all_results, methods)
    /\ pc' = "aggregated"
    /\ UNCHANGED <<test_queries, methods, ci, mi, all_results, fs, ret, exc,
                   execLog>>
    /\ UNCHANGED <<peer, args, clock>>

NextAgg == Aggregate

SpecAgg == InitAgg /\ [][NextAgg]_vars

-----------------------------------------------------------------------------
(* _aggregate_results on records of several strategies and on any list of  *)
(* strategies                                                              *)

MaxMixRecords == 4

\* The record evaluate_query produces for the method from a successful call
\* with the given latency
SuccessOf(method, l) ==
    evaluate_query(Q2, method, NoExpectations,
                   QueryMethod(Q2, TRUE, EnvWithLatency(l)))

\* Successful and failed records of two strategies
MixRecordPool ==
    { SuccessOf("zero_shot", 100),
      SuccessOf("zero_shot", 300),
      SuccessOf("few_shot", 200),
      FailureRecord(Q2, "zero_shot", "No documents retrieved"),
      FailureRecord(Q2, "few_shot", "LLM call failed") }

\* Strategy lists: empty, both strategies, one, one repeated, and one that
\* no record belongs to
MixMethodsPool ==
    { <<>>,
      <<"zero_shot", "few_shot">>,
      <<"few_shot">>,
      <<"few_shot", "zero_shot", "few_shot">>,
      <<"chain_of_thought", "zero_shot">> }

InitMix ==
    /\ all_results \in SeqsUpTo(MixRecordPool, MaxMixRecords)
    /\ methods \in MixMethodsPool
    /\ pc = "aggregate"
    /\ test_queries = <<>>
    /\ ci = 1
    /\ mi = 1
    /\ aggregated = <<>>
    /\ fs = [p \in {OutputFile} |-> PriorContent]
    /\ ret = None
    /\ exc = "none"
    /\ execLog = <<>>
    /\ peer = None
    /\ clock = 0
    /\ args = None

NextMix == Aggregate

SpecMix == InitMix /\ [][NextMix]_vars

-----------------------------------------------------------------------------
(* Two evaluate_test_set calls on one Evaluator, interleaved               *)

MaxConcCases == 1

MaxConcMethods == 1

\* The locals of the running call, as they are kept while it is suspended.
\* self.output_dir (line 26) and the file system are not among them: both
\* calls see the same ones.
Locals(id) ==
    [caller |-> id,
     test_queries |-> test_queries,
     methods |-> methods,
     pc |-> pc,
     ci |-> ci,
     mi |-> mi,
     all_results |-> all_results,
     aggregated |-> aggregated,
     ret |-> ret,
     exc |-> exc]

\* The locals of a call that has not started yet
FreshCall(id, tq, ms) ==
    [caller |-> id,
     test_queries |-> tq,
     methods |-> ms,
     pc |-> "case",
     ci |-> 1,
     mi |-> 1,
     all_results |-> <<>>,
     aggregated |-> <<>>,
     ret |-> None,
     exc |-> "none"]

InitConc ==
    /\ test_queries \in SeqsUpTo(TestCasePool, MaxConcCases)
    /\ methods \in SeqsUpTo(RequestedNames, MaxConcMethods)
    /\ pc = "case"
    /\ ci = 1
    /\ mi = 1
    /\ all_results = <<>>
    /\ aggregated = <<>>
    /\ fs = [p \in {OutputFile} |-> PriorContent]
    /\ ret = None
    /\ exc = "none"
    /\ execLog = <<>>
    /\ peer \in {FreshCall(2, tq, ms) :
                    tq \in SeqsUpTo(TestCasePool, MaxConcCases),
                    ms \in SeqsUpTo(RequestedNames, MaxConcMethods)}
    /\ args = None
    /\ clock = 0

\* The scheduler suspends the running call and resumes the other one, which
\* has not terminated.  The file system and the executor are shared.
Switch ==
    /\ peer # None
    /\ peer.pc \notin {"done", "raised"}
    /\ peer' = Locals(3 - peer.caller)
    /\ test_queries' = peer.test_queries
    /\ methods' = peer.methods
    /\ pc' = peer.pc
    /\ ci' = peer.ci
    /\ mi' = peer.mi
    /\ all_results' = peer.all_results
    /\ aggregated' = peer.aggregated
    /\ ret' = peer.ret
    /\ exc' = peer.exc
    /\ UNCHANGED <<fs, execLog, args, clock>>

NextConc ==
    \/ RaiseKeyError
    \/ BeginCase
    \/ RaiseValueError
    \/ EvaluatePair
    \/ Finish
    \/ Switch

SpecConc == InitConc /\ [][NextConc]_vars

-----------------------------------------------------------------------------
(* evaluate_query called repeatedly with the same arguments                *)

MaxCalls == 2

\* Latencies the executor may measure for one and the same answer
RepeatLatencies == {1000, 6000}

\* What the vector store and the LLM may do during one call: as in
\* Environments, with every measured latency
QueryEnvironments ==
    Environments
    \cup {[env EXCEPT !.latency_ms = l] :
            env \in Environments, l \in RepeatLatencies}

\* One test case with a query and one known method; execLog will hold, per
\* call, what the executor returned or raised.
\* Test cases for one evaluate_query call: those of TestCasePool that have
\* a query, and one with expected keywords and no expected answer
QueryCasePool ==
    {c \in TestCasePool : "query" \in DOMAIN c}
    \cup {[query |-> Q1, expected_keywords |-> <<Kw_net, Kw_loss>>]}

InitQuery ==
    /\ test_queries \in {<<tc>> : tc \in QueryCasePool}
    /\ methods \in {<<m>> : m \in MethodMap}
    /\ pc = "query"
    /\ ci = 1
    /\ mi = 1
    /\ all_results = <<>>
    /\ aggregated = <<>>
    /\ fs = [p \in {OutputFile} |-> PriorContent]
    /\ ret = None
    /\ exc = "none"
    /\ execLog = <<>>
    /\ peer = None
    /\ clock = 0
    /\ args = None

\* One more call evaluate_query(query, method, expected_answer,
\* expected_keywords, expected_sources) with the arguments of the test case
\* (lines 257-308); its record is kept in all_results.
EvaluateQuery ==
    /\ pc = "query"
    /\ Len(all_results) < MaxCalls
    /\ \E env \in QueryEnvironments :
         LET test_case == test_queries[1]
             outcome == QueryMethod(test_case.query, TRUE, env)
         IN  /\ all_results' =
                    Append(all_results,
                           evaluate_query(test_case.query, methods[1],
                                          Expectations(test_case), outcome))
             /\ execLog' = Append(execLog, outcome)
    /\ UNCHANGED <<test_queries, methods, pc, ci, mi, aggregated, fs, ret, exc,
                   peer, args, clock>>

NextQuery == EvaluateQuery

SpecQuery == InitQuery /\ [][NextQuery]_vars

-----------------------------------------------------------------------------
(* A metric function called on its own                                     *)

\* The state of every variable that such a call does not use
NoRun ==
    /\ test_queries = <<>>
    /\ methods = <<>>
    /\ ci = 1
    /\ mi = 1
    /\ all_results = <<>>
    /\ aggregated = <<>>
    /\ fs = [p \in {OutputFile} |-> PriorContent]
    /\ exc = "none"
    /\ execLog = <<>>
    /\ peer = None
    /\ clock = 0

\* "Revenue grew to $125 million"
AnswerRevenue ==
    <<"R", "e", "v", "e", "n", "u", "e", " ", "g", "r", "e", "w", " ", "t",
    "o", " ", "$", "1", "2", "5", " ", "m", "i", "l", "l", "i", "o", "n">>

\* "revenue growth"
ExpectedGrowth ==
    <<"r", "e", "v", "e", "n", "u", "e", " ", "g", "r", "o", "w", "t", "h">>

Kw_revenue == <<"r", "e", "v", "e", "n", "u", "e">>

Kw_growth == <<"g", "r", "o", "w", "t", "h">>

Kw_eps == <<"e", "p", "s">>

\* Answers: the one of the documented example, a mixed-case one, a
\* lower-case one and the empty answer
AnswerPool ==
    { AnswerRevenue,
      <<"N", "e", "t", " ", "u", "p", " ", "9">>,
      <<"l", "o", "s", "s">>,
      <<>> }

\* Expected answers: not contained, contained up to case, containing the
\* answer, unrelated, and empty
ExpectedAnswerPool ==
    { ExpectedGrowth,
      <<"N", "E", "t">>,
      <<"A", " ", "N", "e", "t", " ", "u", "p", " ", "9", " ", "p", "c",
      "t">>,
      Kw_eps,
      <<>> }

\* expected_keywords: None, [], and lists with found, missing and repeated
\* keywords
ExpectedKeywordsPool ==
    { None,
      Some(<<>>),
      Some(<<Kw_revenue, Kw_growth>>),
      Some(<<Kw_net, Kw_loss>>),
      Some(<<Kw_net, Kw_net, Kw_eps>>),
      Some(<<Kw_eps>>) }

InitCorrectness ==
    /\ args \in {[fn |-> "evaluate_answer_correctness",
                  answer |-> a,
                  expected_answer |-> e,
                  expected_keywords |-> k] :
                    a \in AnswerPool, e \in ExpectedAnswerPool,
                    k \in ExpectedKeywordsPool}
    /\ pc = "call"
    /\ ret = None
    /\ NoRun

\* One call of evaluate_answer_correctness (lines 34-72)
CallCorrectness ==
    /\ pc = "call"
    /\ args.fn = "evaluate_answer_correctness"
    /\ ret' = evaluate_answer_correctness(args.answer, args.expected_answer,
                                          args.expected_keywords)
    /\ pc' = "returned"
    /\ UNCHANGED <<test_queries, methods, ci, mi, all_results, aggregated, fs,
                   exc, execLog, peer, args, clock>>

NextCorrectness == CallCorrectness

SpecCorrectness == InitCorrectness /\ [][NextCorrectness]_vars

MaxCitations == 3

\* Citations as _get_citations builds them, and one without a 'source' key
CitationPool ==
    { [index |-> 1, source |-> "a.txt"],
      [index |-> 2, source |-> "b.txt"],
      [index |-> 3] }

\* expected_sources: None, [], and lists with and without repetitions
ExpectedSourcesPool ==
    { None,
      Some(<<>>),
      Some(<<"a.txt", "c.txt">>),
      Some(<<"b.txt">>),
      Some(<<"c.txt">>),
      Some(<<"a.txt", "b.txt", "a.txt">>) }

InitCitation ==
    /\ args \in {[fn |-> "evaluate_source_citation_accuracy",
                  citations |-> c,
                  expected_sources |-> e] :
                    c \in SeqsUpTo(CitationPool, MaxCitations),
                    e \in ExpectedSourcesPool}
    /\ pc = "call"
    /\ ret = None
    /\ NoRun

\* One call of evaluate_source_citation_accuracy (lines 74-120)
CallCitation ==
    /\ pc = "call"
    /\ args.fn = "evaluate_source_citation_accuracy"
    /\ ret' = evaluate_source_citation_accuracy(args.citations,
                                                args.expected_sources)
    /\ pc' = "returned"
    /\ UNCHANGED <<test_queries, methods, ci, mi, all_results, aggregated, fs,
                   exc, execLog, peer, args, clock>>

NextCitation == CallCitation

SpecCitation == InitCitation /\ [][NextCitation]_vars

-----------------------------------------------------------------------------
(* CostAnalyzer.analyze_cost_drivers called on its own                     *)

MaxCostRecords == 3

\* (prompt_tokens, completion_tokens) of one query
TokenPairs == {<<600, 400>>, <<100, 100>>, <<100, 300>>, <<0, 0>>}

\* A successful record whose cost is what evaluate_cost computes for the
\* token counts
CostRecord(prompt_tokens, completion_tokens) ==
    [query |-> Q2,
     method |-> "zero_shot",
     success |-> TRUE,
     cost |-> evaluate_cost(prompt_tokens, completion_tokens, AgentModelName)]

\* Records that analyze_cost_drivers may be given: successful ones, a failed
\* one (no 'cost'), and one whose cost dict lacks most keys
AnalysedRecordPool ==
    {CostRecord(t[1], t[2]) : t \in TokenPairs}
    \cup {FailureRecord(Q2, "zero_shot", "No documents retrieved")}
    \cup {[query |-> Q2, success |-> TRUE, cost |-> [prompt_tokens |-> 100]]}

InitCostDrivers ==
    /\ args \in {[fn |-> "analyze_cost_drivers", evaluation_results |-> rs] :
                    rs \in SeqsUpTo(AnalysedRecordPool, MaxCostRecords)}
    /\ pc = "call"
    /\ ret = None
    /\ NoRun

\* One call of analyze_cost_drivers (lines 74-117)
CallCostDrivers ==
    /\ pc = "call"
    /\ args.fn = "analyze_cost_drivers"
    /\ ret' = analyze_cost_drivers(args.evaluation_results)
    /\ pc' = "returned"
    /\ UNCHANGED <<test_queries, methods, ci, mi, all_results, aggregated, fs,
                   exc, execLog, peer, args, clock>>

NextCostDrivers == CallCostDrivers

SpecCostDrivers == InitCostDrivers /\ [][NextCostDrivers]_vars

-----------------------------------------------------------------------------
(* CostAnalyzer.generate_optimization_recommendations called on its own    *)

\* prompt_cost_percentage of a cost analysis: absent, or a percentage below,
\* at and above the threshold of 60
PromptSharePool ==
    {None} \cup {Some(FracInt(x)) : x \in {0, 40, 60, 70, 100}}
    \cup {Some(Frac(601, 10))}

\* avg_cost_per_query_usd of a cost analysis in units of 1e-8 USD: absent,
\* or a cost below, at and above 0.01 USD (500000 is 0.005 USD, 2000000 is
\* 0.02 USD)
AvgCostPool ==
    {None} \cup {Some(FracInt(x)) : x \in {0, 500000, 1000000, 2000000}}
    \cup {Some(Frac(2000001, 2))}

\* target_cost_reduction: the default 0.5, and the ends of its range
TargetReductionPool == {Frac(1, 2), FracInt(0), FracInt(1)}

\* The cost analysis dict with the keys that are given
CostAnalysisOf(share, cost) ==
    IF share # None /\ cost # None
    THEN [prompt_cost_percentage |-> share[1],
          avg_cost_per_query_usd |-> cost[1]]
    ELSE IF share # None THEN [prompt_cost_percentage |-> share[1]]
    ELSE IF cost # None THEN [avg_cost_per_query_usd |-> cost[1]]
    ELSE [total_queries |-> 0]

InitRecommend ==
    /\ args \in {[fn |-> "generate_optimization_recommendations",
                  cost_analysis |-> CostAnalysisOf(share, cost),
                  target_cost_reduction |-> t] :
                    share \in PromptSharePool, cost \in AvgCostPool,
                    t \in TargetReductionPool}
    /\ pc = "call"
    /\ ret = None
    /\ NoRun

\* One call of generate_optimization_recommendations (lines 119-181)
CallRecommend ==
    /\ pc = "call"
    /\ args.fn = "generate_optimization_recommendations"
    /\ ret' = generate_optimization_recommendations(
                  args.cost_analysis, args.target_cost_reduction)
    /\ pc' = "returned"
    /\ UNCHANGED <<test_queries, methods, ci, mi, all_results, aggregated, fs,
                   exc, execLog, peer, args, clock>>

NextRecommend == CallRecommend

SpecRecommend == InitRecommend /\ [][NextRecommend]_vars

-----------------------------------------------------------------------------
(* CostAnalyzer.estimate_10x_scale_costs called on its own                 *)

\* current_cost_per_1k in USD
CostPer1kPool ==
    {FracInt(x) : x \in {0, 5, 50, 100, 500, 1000}}
    \cup {Frac(1, 2), Frac(1001, 10)}

\* current_volume: not given (None), or a volume below, at and above the
\* thresholds
VolumePool == {None} \cup {Some(v) : v \in {0, 1, 100, 1001, 2000, 10000}}

InitScale ==
    /\ args \in {[fn |-> "estimate_10x_scale_costs",
                  current_cost_per_1k |-> c,
                  current_volume |-> v] :
                    c \in CostPer1kPool, v \in VolumePool}
    /\ pc = "call"
    /\ ret = None
    /\ NoRun

\* One call of estimate_10x_scale_costs (lines 183-232)
CallScale ==
    /\ pc = "call"
    /\ args.fn = "estimate_10x_scale_costs"
    /\ ret' = estimate_10x_scale_costs(
                  args.current_cost_per_1k,
                  IF args.current_volume = None THEN DefaultVolume
                  ELSE args.current_volume[1])
    /\ pc' = "returned"
    /\ UNCHANGED <<test_queries, methods, ci, mi, all_results, aggregated, fs,
                   exc, execLog, peer, args, clock>>

NextScale == CallScale

SpecScale == InitScale /\ [][NextScale]_vars

-----------------------------------------------------------------------------
(* The two cost computations called on their own                           *)

\* Model names: those of the pricing tables, and names in neither table
ModelNamePool ==
    {"gpt-4o-mini", "gpt-4o", "gpt-4", "text-embedding-3-small",
     "gpt-3.5-turbo", ""}

\* Token counts of one query
TokenCountPool == {0, 1, 100, 150}

\* embedding_tokens: the default 0, or some
EmbeddingTokenPool == {0, 50}

InitCostCalc ==
    /\ args \in {[fn |-> "evaluate_cost", model |-> m,
                  prompt_tokens |-> p, completion_tokens |-> c] :
                    m \in ModelNamePool, p \in TokenCountPool,
                    c \in TokenCountPool}
                \cup
                {[fn |-> "calculate_query_cost", model |-> m,
                  prompt_tokens |-> p, completion_tokens |-> c,
                  embedding_tokens |-> e] :
                    m \in ModelNamePool, p \in TokenCountPool,
                    c \in TokenCountPool, e \in EmbeddingTokenPool}
    /\ pc = "call"
    /\ ret = None
    /\ NoRun

\* One call of Evaluator.evaluate_cost (evaluator.py, lines 179-220)
CallEvaluateCost ==
    /\ pc = "call"
    /\ args.fn = "evaluate_cost"
    /\ ret' = evaluate_cost(args.prompt_tokens, args.completion_tokens,
                            args.model)
    /\ pc' = "returned"
    /\ UNCHANGED <<test_queries, methods, ci, mi, all_results, aggregated, fs,
                   exc, execLog, peer, args, clock>>

\* One call of CostAnalyzer(model).calculate_query_cost (cost_analyzer.py,
\* lines 37-72)
CallQueryCost ==
    /\ pc = "call"
    /\ args.fn = "calculate_query_cost"
    /\ ret' = calculate_query_cost(args.model, args.prompt_tokens,
                                   args.completion_tokens,
                                   args.embedding_tokens)
    /\ pc' = "returned"
    /\ UNCHANGED <<test_queries, methods, ci, mi, all_results, aggregated, fs,
                   exc, execLog, peer, args, clock>>

NextCostCalc ==
    \/ CallEvaluateCost
    \/ CallQueryCost

SpecCostCalc == InitCostCalc /\ [][NextCostCalc]_vars

-----------------------------------------------------------------------------
(* Evaluator.evaluate_response_completeness called on its own              *)

\* Ten words, 19 characters
TenWords ==
    <<"a", " ", "b", " ", "c", " ", "d", " ", "e", " ", "f", " ", "g", " ",
    "h", " ", "i", " ", "j">>

\* One word, 20 characters
OneLongWord == [k \in 1..20 |-> "x"]

\* Answers: empty, blanks only, two words between blanks, nine words, ten
\* words, one long word, and eleven words
CompletenessAnswerPool ==
    { <<>>,
      <<" ", " ">>,
      <<" ", "a", "b", " ", " ", "c", "d", " ">>,
      SubSeq(TenWords, 1, 17),
      TenWords,
      OneLongWord,
      TenWords \o <<" ">> \o OneLongWord }

\* min_length: values around the lengths of the answers, the default, and
\* values that are not positive
MinLengthPool == {-1, 0, 1, 8, 17, 19, 20, 50}

InitCompleteness ==
    /\ args \in {[fn |-> "evaluate_response_completeness",
                  answer |-> a, min_length |-> m] :
                    a \in CompletenessAnswerPool, m \in MinLengthPool}
    /\ pc = "call"
    /\ ret = None
    /\ NoRun

\* One call of evaluate_response_completeness (lines 122-149)
CallCompleteness ==
    /\ pc = "call"
    /\ args.fn = "evaluate_response_completeness"
    /\ ret' = evaluate_response_completeness(args.answer, args.min_length)
    /\ pc' = "returned"
    /\ UNCHANGED <<test_queries, methods, ci, mi, all_results, aggregated, fs,
                   exc, execLog, peer, args, clock>>

NextCompleteness == CallCompleteness

SpecCompleteness == InitCompleteness /\ [][NextCompleteness]_vars

-----------------------------------------------------------------------------
(* error_handler.py: ErrorHandler.with_error_handling                      *)
(* A message text is a sequence holding the text as one item; the empty    *)
(* string is the empty sequence.  An exception is a record of its class    *)
(* and its message.                                                        *)

\* The direct base class of an exception class (lines 15-32; the built-in
\* hierarchy for the others).  "OSTimeoutError" is the built-in TimeoutError,
\* which the module's own class of that name shadows.
BaseOf(cls) ==
    CASE cls = "RetrievalError" -> "RAGError"
      [] cls = "GenerationError" -> "RAGError"
      [] cls = "TimeoutError" -> "RAGError"
      [] cls = "RAGError" -> "Exception"
      [] cls = "ValueError" -> "Exception"
      [] cls = "KeyError" -> "Exception"
      [] cls = "AttributeError" -> "Exception"
      [] cls = "OSTimeoutError" -> "Exception"
      [] cls = "Exception" -> "BaseException"
      [] cls = "KeyboardInterrupt" -> "BaseException"
      [] OTHER -> "BaseException"

\* isinstance(e, of), as an except clause decides it
RECURSIVE IsInstance(_, _)
IsInstance(cls, of) ==
    \/ cls = of
    \/ cls # "BaseException" /\ IsInstance(BaseOf(cls), of)

\* Lines 63-68; the wrapper passes no fallback_strategy
handle_retrieval_failure(query, error) ==
    [answer |-> <<"I encountered an error while searching for information. Please try rephrasing your question or contact support if the issue persists.">>,
     error |-> "retrieval_failure",
     error_message |-> error.message,
     citations |-> <<>>]

\* Lines 95-100; the wrapper passes no fallback_strategy
handle_llm_timeout(query, timeout_seconds) ==
    [answer |-> <<"The request took too long to process. Please try a simpler or more specific question.">>,
     error |-> "timeout",
     timeout_seconds |-> timeout_seconds,
     citations |-> <<>>]

\* Lines 119-124, with the default scope_description
handle_out_of_scope_query(query) ==
    [answer |-> <<"I can only answer questions about financial documents. Your question appears to be outside this scope. Please rephrase your question to focus on financial documents.">>,
     error |-> "out_of_scope",
     scope |-> "financial documents",
     citations |-> <<>>]

\* Lines 143-148
handle_malformed_input(query, error) ==
    [answer |-> <<"I couldn't understand your question. Please try rephrasing it or breaking it into simpler parts.">>,
     error |-> "malformed_input",
     error_message |-> error.message,
     citations |-> <<>>]

\* Lines 167-180
handle_empty_response(query, retrieved_docs) ==
    IF retrieved_docs = 0
    THEN [answer |-> <<"I couldn't find any relevant information in the documents to answer your question. Please try rephrasing or asking about a different topic.">>,
          error |-> "no_relevant_docs",
          retrieved_docs |-> 0,
          citations |-> <<>>]
    ELSE [answer |-> <<"I found some documents but couldn't generate a meaningful answer. The documents may not contain the specific information you're looking for.">>,
          error |-> "empty_response",
          retrieved_docs |-> retrieved_docs,
          citations |-> <<>>]

\* Lines 249-254
UnexpectedErrorResponse(error) ==
    [answer |-> <<"An unexpected error occurred. Please try again later.">>,
     error |-> "unexpected_error",
     error_message |-> error.message,
     citations |-> <<>>]

\* kwargs.get('query', 'unknown'): a query passed positionally is not in
\* kwargs
KwargsQuery(a) ==
    IF a.query_as = "keyword" THEN a.query ELSE <<"unknown">>

\* What a call leaves the wrapper with: a returned response, or an exception
\* that propagates to the caller
Returns(v) == [raised |-> FALSE, value |-> v]

Propagates(e) == [raised |-> TRUE, exc |-> e]

\* The except clauses of lines 227-254, in their order; an exception that is
\* not an Exception (KeyboardInterrupt) matches none and propagates.
ExceptClauses(a, e) ==
    IF IsInstance(e.cls, "TimeoutError")
    THEN Returns(handle_llm_timeout(KwargsQuery(a), a.timeout_seconds))
    ELSE IF IsInstance(e.cls, "RetrievalError")
    THEN Returns(handle_retrieval_failure(KwargsQuery(a), e))
    ELSE IF IsInstance(e.cls, "GenerationError")
    THEN Returns(handle_retrieval_failure(KwargsQuery(a), e))
    ELSE IF IsInstance(e.cls, "ValueError")
    THEN Returns(handle_malformed_input(KwargsQuery(a), e))
    ELSE IF IsInstance(e.cls, "Exception")
    THEN Returns(UnexpectedErrorResponse(e))
    ELSE Propagates(e)

\* Faulty variant: only a missing result counts as empty.
IsEmptyResponse_NoneOnly(result) == result = None

\* not result or not result.get('answer') (line 219), for a dict or None
IsEmptyResponse(result) ==
    \/ result = None
    \/ "answer" \notin DOMAIN result
    \/ result.answer = <<>>

\* result.get('retrieved_docs', 0) if result else 0 (line 222)
RetrievedDocs(result) ==
    IF result # None /\ "retrieved_docs" \in DOMAIN result
    THEN result.retrieved_docs
    ELSE 0

\* Lines 210-225 and the except clauses: what the wrapper does once func has
\* returned or raised, elapsed seconds after start_time.
AfterCall(a, outcome, elapsed) ==
    IF outcome.kind = "raise"
    THEN ExceptClauses(a, outcome.exc)
    ELSE IF elapsed > a.timeout_seconds
    THEN Returns(handle_llm_timeout(KwargsQuery(a), a.timeout_seconds))
    ELSE IF outcome.kind = "return_str"
    THEN ExceptClauses(a, [cls |-> "AttributeError",
                           message |-> "'str' object has no attribute 'get'"])
    ELSE IF IsEmptyResponse(outcome.value)
    THEN Returns(handle_empty_response(KwargsQuery(a),
                                       RetrievedDocs(outcome.value)))
    ELSE Returns(outcome.value)

\* The scope_check callables: one that accepts questions about the documents
\* only, and one that raises.
ScopeCheckAccepts(query) == query = Q1

MaxDuration == 3

TimeoutPool == {1, 2}

WrappedAnswer == <<"Net income rose">>

\* What func may return: None, a response with an answer, responses with an
\* empty or missing answer, with and without retrieved_docs
FuncResultPool ==
    { None,
      [answer |-> WrappedAnswer, citations |-> <<>>],
      [answer |-> WrappedAnswer, citations |-> <<>>, retrieved_docs |-> 3],
      [answer |-> <<>>, citations |-> <<>>],
      [answer |-> <<>>, citations |-> <<>>, retrieved_docs |-> 3],
      [citations |-> <<>>, retrieved_docs |-> 0] }

RaisedClassPool ==
    { "TimeoutError", "RetrievalError", "GenerationError", "RAGError",
      "ValueError", "KeyError", "OSTimeoutError", "KeyboardInterrupt" }

\* How a call of func ends: it returns a dict or None, returns a str, or
\* raises
FuncOutcomePool ==
    {[kind |-> "return", value |-> v] : v \in FuncResultPool}
    \cup {[kind |-> "return_str"]}
    \cup {[kind |-> "raise", exc |-> [cls |-> c, message |-> "failed"]] :
             c \in RaisedClassPool}

\* wrapper(query=q) or wrapper(q), for a wrapper made with or without a
\* scope_check; func takes `duration` seconds and ends with `outcome`.
InitWrapper ==
    /\ NoRun
    /\ args \in {[fn |-> "with_error_handling",
                  query |-> q,
                  query_as |-> qa,
                  scope_check |-> sc,
                  timeout_seconds |-> t,
                  duration |-> d,
                  outcome |-> o] :
                    q \in {Q1, Q2},
                    qa \in {"keyword", "positional"},
                    sc \in {"none", "documents_only", "raising"},
                    t \in TimeoutPool,
                    d \in 0..MaxDuration,
                    o \in FuncOutcomePool}
    /\ pc = "call"
    /\ ret = None

\* The wrapper leaves with a response or with a propagating exception.
Leave(w) ==
    IF w.raised
    THEN /\ pc' = "raised"
         /\ exc' = w.exc.cls
         /\ UNCHANGED ret
    ELSE /\ pc' = "returned"
         /\ ret' = w.value
         /\ UNCHANGED exc

\* Lines 201-209: the scope check, made only when the query is in kwargs,
\* then start_time and the call of func.
WrapperEnter ==
    /\ pc = "call"
    /\ args.fn = "with_error_handling"
    /\ IF args.scope_check # "none" /\ args.query_as = "keyword"
       THEN IF args.scope_check = "raising"
            THEN /\ Leave(ExceptClauses(args, [cls |-> "KeyError",
                                               message |-> "failed"]))
                 /\ UNCHANGED execLog
            ELSE IF ~ScopeCheckAccepts(args.query)
            THEN /\ Leave(Returns(handle_out_of_scope_query(args.query)))
                 /\ UNCHANGED execLog
            ELSE /\ pc' = "running"
                 /\ execLog' = Append(execLog, [event |-> "invoked",
                                                at |-> clock])
                 /\ UNCHANGED <<ret, exc>>
       ELSE /\ pc' = "running"
            /\ execLog' = Append(execLog, [event |-> "invoked",
                                           at |-> clock])
            /\ UNCHANGED <<ret, exc>>
    /\ UNCHANGED <<test_queries, methods, ci, mi, all_results, aggregated, fs,
                   peer, args, clock>>

\* func is running: a second passes.  Nothing in the wrapper runs meanwhile.
FuncRuns ==
    /\ pc = "running"
    /\ clock - execLog[1].at < args.duration
    /\ clock' = clock + 1
    /\ UNCHANGED <<test_queries, methods, pc, ci, mi, all_results, aggregated,
                   fs, ret, exc, execLog, peer, args>>

\* Line 209 completes: func returns or raises; lines 210-254.
WrapperExit ==
    /\ pc = "running"
    /\ clock - execLog[1].at = args.duration
    /\ execLog' = Append(execLog,
                         [event |-> IF args.outcome.kind = "raise"
                                    THEN "raised" ELSE "completed",
                          at |-> clock])
    /\ Leave(AfterCall(args, args.outcome, clock - execLog[1].at))
    /\ UNCHANGED <<test_queries, methods, ci, mi, all_results, aggregated, fs,
                   peer, args, clock>>

NextWrapper ==
    \/ WrapperEnter
    \/ FuncRuns
    \/ WrapperExit

SpecWrapper == InitWrapper /\ [][NextWrapper]_vars

-----------------------------------------------------------------------------
(* Properties                                                              *)

AllKnown(ms) == \A k \in 1..Len(ms) : ms[k] \in MethodMap

AllHaveQuery(tq) == \A k \in 1..Len(tq) : "query" \in DOMAIN tq[k]

Returned == pc = "done"

\* Some step of the run is possible: the guard of Finish, or one of the other
\* actions is enabled.
CanStep ==
    \/ pc = "case" /\ ci > Len(test_queries)
    \/ ENABLED (RaiseKeyError \/ BeginCase \/ RaiseValueError \/ EvaluatePair)

\* C1 (as stated): for every list of test cases and every list of requested
\* strategy names, no exception leaves evaluate_test_set because of one
\* (query, strategy) pair.
C1_NoPairAborts == exc # "ValueError"

\* C1 (amended): when every test case carries a query and every requested
\* strategy name is one of the four known methods, every execution that
\* raised has a success=false record at its position, the run is never stuck
\* before it returns (it goes on to the remaining pairs), and no exception
\* leaves evaluate_test_set.
C1_FailuresBecomeRecords ==
    (AllKnown(methods) /\ AllHaveQuery(test_queries)) =>
        /\ exc = "none"
        /\ pc # "raised"
        /\ Len(all_results) = Len(execLog)
        /\ \A k \in 1..Len(execLog) :
              execLog[k].kind # "ok" =>
                  /\ all_results[k].success = FALSE
                  /\ "error" \in DOMAIN all_results[k]
        /\ (Returned \/ CanStep)
        /\ Returned => Len(ret.individual_results)
                         = Len(test_queries) * Len(methods)

\* C1 witness: a run that returned although an execution raised, with further
\* pairs evaluated after the failure.
C1_Witness ==
    /\ Returned
    /\ \E k \in 1..Len(execLog) :
          /\ execLog[k].kind = "raised"
          /\ k < Len(execLog)
          /\ all_results[k + 1].success

\* C2 (as stated): an execution that retrieved zero documents and did not
\* raise yields a success=true record with citation precision 0 and recall 0,
\* which is counted in the averages of its strategy.
C2_ZeroDocsIsSuccess ==
    \A k \in 1..Len(execLog) :
        (execLog[k].kind # "raised" /\ execLog[k].documents = 0) =>
            /\ all_results[k].success
            /\ all_results[k].citation_accuracy.precision = FracInt(0)
            /\ all_results[k].citation_accuracy.recall = FracInt(0)

\* C3 (as stated): after a run with at least one test case, aggregated has an
\* entry for every requested strategy.
C3_EntryForEveryStrategy ==
    (Returned /\ Len(test_queries) >= 1) =>
        DOMAIN ret.aggregated = ToSet(methods)

SuccessfulOf(m) ==
    {k \in 1..Len(all_results) :
        all_results[k].method = m /\ all_results[k].success}

AttemptedOf(m) ==
    {k \in 1..Len(all_results) : all_results[k].method = m}

\* C3 (amended): after a run with at least one test case, aggregated has an
\* entry for exactly the requested strategies that have at least one
\* success=true record; a strategy all of whose queries failed has none.
C3_EntryForStrategiesWithSuccess ==
    (Returned /\ Len(test_queries) >= 1) =>
        DOMAIN ret.aggregated = {m \in ToSet(methods) : SuccessfulOf(m) # {}}

\* C3 witness: a run returned, one requested strategy has an entry and another
\* one, all of whose queries failed, has none.
C3_Witness ==
    /\ Returned
    /\ \E m1, m2 \in ToSet(methods) :
          /\ m1 \in DOMAIN ret.aggregated
          /\ m2 \notin DOMAIN ret.aggregated
          /\ AttemptedOf(m2) # {}

\* C4: in every AggregatedStats entry, success_rate is the number of
\* success=true records of the strategy divided by the number of all its
\* attempted records (failures included): it lies in [0,1] and success_rate
\* times the attempted count is the successful count.
C4_SuccessRateOverAttempted ==
    Returned =>
        \A m \in DOMAIN ret.aggregated :
            LET rate == ret.aggregated[m].success_rate
                succ == Cardinality(SuccessfulOf(m))
                att == Cardinality(AttemptedOf(m))
            IN  /\ rate.den > 0
                /\ 0 <= rate.num
                /\ rate.num <= rate.den
                /\ att > 0
                /\ rate.num * att = succ * rate.den
                /\ rate = Frac(succ, att)

\* C4 witness: an entry of a strategy with both successful and failed records.
C4_Witness ==
    /\ Returned
    /\ \E m \in DOMAIN ret.aggregated :
          /\ SuccessfulOf(m) # AttemptedOf(m)
          /\ ret.aggregated[m].success_rate = Frac(1, 2)

\* C5: the executor is invoked exactly once per (test case, strategy) pair, in
\* test-case-major, strategy-minor order and with no retry; the record at
\* position i*|strategies|+j belongs to test case i and strategy j, and the
\* returned and the persisted record sequence have |testCases| x |strategies|
\* records.
C5_OncePerPairInOrder ==
    LET n == Len(methods)
        InOrder(records) ==
            \A k \in 1..Len(records) :
                /\ records[k].query = test_queries[((k - 1) \div n) + 1].query
                /\ records[k].method = methods[((k - 1) % n) + 1]
    IN  /\ \A k \in 1..Len(execLog) :
               /\ execLog[k].case = ((k - 1) \div n) + 1
               /\ execLog[k].method = ((k - 1) % n) + 1
        /\ Len(all_results) = Len(execLog)
        /\ InOrder(all_results)
        /\ Returned =>
               /\ Len(execLog) = Len(test_queries) * n
               /\ Len(ret.individual_results) = Len(test_queries) * n
               /\ InOrder(ret.individual_results)
               /\ Len(fs[ret.output_file].results) = Len(test_queries) * n
               /\ InOrder(fs[ret.output_file].results)

\* C5 witness: a returned run over two test cases and two different
\* strategies whose first execution raised.
C5_Witness ==
    /\ Returned
    /\ Len(test_queries) = 2
    /\ Len(methods) = 2
    /\ methods[1] # methods[2]
    /\ test_queries[1].query # test_queries[2].query
    /\ execLog[1].kind = "raised"
    /\ Len(ret.individual_results) = 4

FailureKeys == {"query", "method", "error", "success"}

\* C6: whenever the executor returns an error result or raises, the record
\* holds only the query, the method, the error and success=false; no metric
\* evaluator contributes a field to a success=false record.
C6_FailureRecordHasNoScores ==
    /\ \A k \in 1..Len(execLog) :
          execLog[k].kind \in {"raised", "error"} =>
              /\ all_results[k].success = FALSE
              /\ DOMAIN all_results[k] = FailureKeys
    /\ \A k \in 1..Len(all_results) :
          ~all_results[k].success => DOMAIN all_results[k] = FailureKeys

\* C6 witness: one execution raised and another returned an error result.
C6_Witness ==
    \E k1, k2 \in 1..Len(execLog) :
        /\ execLog[k1].kind = "raised"
        /\ execLog[k2].kind = "error"
        /\ ~all_results[k1].success
        /\ ~all_results[k2].success

\* An expectation is supplied when the test case gives it a non-empty value
\* (an empty string or list is the malformed expectation, which counts as
\* none).
Supplied(test_case, key) ==
    key \in DOMAIN test_case /\ test_case[key] # <<>>

\* C7: a success=true record carries the results of the citation,
\* completeness, latency and cost evaluators, and its correctness field is
\* the correctness evaluator's result if an expected answer or expected
\* keywords were supplied and null (never a zero score) otherwise.
C7_EvaluatorsOnSuccess ==
    \A k \in 1..Len(all_results) :
        all_results[k].success =>
            LET r == all_results[k]
                test_case == test_queries[execLog[k].case]
                supplied == \/ Supplied(test_case, "expected_answer")
                            \/ Supplied(test_case, "expected_keywords")
            IN  /\ {"correctness", "citation_accuracy", "completeness",
                    "latency", "cost"} \subseteq DOMAIN r
                /\ "precision" \in DOMAIN r.citation_accuracy
                /\ "completeness_score" \in DOMAIN r.completeness
                /\ "latency_ms" \in DOMAIN r.latency
                /\ "total_cost_usd" \in DOMAIN r.cost
                /\ supplied => /\ r.correctness # None
                               /\ "correctness_score" \in DOMAIN r.correctness
                /\ ~supplied => r.correctness = None

\* C7 witness: two successful records, one of a test case with expectations
\* (scored) and one of a test case without (null correctness).
C7_Witness ==
    \E k1, k2 \in 1..Len(all_results) :
        /\ all_results[k1].success
        /\ all_results[k2].success
        /\ all_results[k1].correctness # None
        /\ all_results[k2].correctness = None
        /\ "expected_answer" \notin DOMAIN test_queries[execLog[k2].case]

RECURSIVE SumLatency(_)
SumLatency(S) ==
    IF S = {} THEN 0
    ELSE LET k == CHOOSE x \in S : TRUE
         IN  all_results[k].latency.latency_ms + SumLatency(S \ {k})

RECURSIVE SumCost(_)
SumCost(S) ==
    IF S = {} THEN 0
    ELSE LET k == CHOOSE x \in S : TRUE
         IN  all_results[k].cost.total_cost_usd + SumCost(S \ {k})

RECURSIVE SumPrecision(_)
SumPrecision(S) ==
    IF S = {} THEN FracInt(0)
    ELSE LET k == CHOOSE x \in S : TRUE
         IN  FracAdd(all_results[k].citation_accuracy.precision,
                     SumPrecision(S \ {k}))

RECURSIVE SumCompleteness(_)
SumCompleteness(S) ==
    IF S = {} THEN FracInt(0)
    ELSE LET k == CHOOSE x \in S : TRUE
         IN  FracAdd(all_results[k].completeness.completeness_score,
                     SumCompleteness(S \ {k}))

RECURSIVE SumCorrectness(_)
SumCorrectness(S) ==
    IF S = {} THEN FracInt(0)
    ELSE LET k == CHOOSE x \in S : TRUE
         IN  FracAdd(all_results[k].correctness.correctness_score,
                     SumCorrectness(S \ {k}))

ScoredOf(m) == {k \in SuccessfulOf(m) : all_results[k].correctness # None}

\* C8: for every strategy, avg_latency_ms, avg_cost_usd,
\* avg_citation_precision and avg_completeness are the arithmetic means over
\* exactly the success=true records of the strategy, and avg_correctness is
\* the mean over the successful records with a non-null correctness score,
\* None (not 0) when there is none.
C8_MeansOverSuccesses ==
    Returned =>
        \A m \in DOMAIN ret.aggregated :
            LET st == ret.aggregated[m]
                S == SuccessfulOf(m)
                n == Cardinality(S)
                C == ScoredOf(m)
            IN  /\ n >= 1
                /\ st.avg_latency_ms = Frac(SumLatency(S), n)
                /\ st.avg_cost_usd = Frac(SumCost(S), n)
                /\ st.avg_citation_precision = FracDivInt(SumPrecision(S), n)
                /\ st.avg_completeness = FracDivInt(SumCompleteness(S), n)
                /\ IF C = {}
                   THEN st.avg_correctness = None
                   ELSE st.avg_correctness
                          = FracDivInt(SumCorrectness(C), Cardinality(C))

\* C8 witness: one strategy has two successful records with different
\* latencies, one of them without a correctness score; another strategy has a
\* failed record and no correctness score at all.
C8_Witness ==
    /\ Returned
    /\ \E m1, m2 \in DOMAIN ret.aggregated :
          /\ Cardinality(SuccessfulOf(m1)) = 2
          /\ \E k1, k2 \in SuccessfulOf(m1) :
                all_results[k1].latency.latency_ms
                    # all_results[k2].latency.latency_ms
          /\ ScoredOf(m1) # {}
          /\ ScoredOf(m1) # SuccessfulOf(m1)
          /\ SuccessfulOf(m2) # AttemptedOf(m2)
          /\ ret.aggregated[m2].avg_correctness = None

LatencyAt(k) == all_results[k].latency.latency_ms

\* v is the element at 0-based index idx of the latencies of S sorted
\* ascending
IsOrderStatistic(v, S, idx) ==
    /\ \E k \in S : LatencyAt(k) = v
    /\ Cardinality({k \in S : LatencyAt(k) < v}) <= idx
    /\ Cardinality({k \in S : LatencyAt(k) <= v}) >= idx + 1

\* C9: for every strategy with n >= 1 successful records, p50_latency_ms is
\* the element at 0-based index floor(n/2) and p95_latency_ms the element at
\* index floor(n*0.95) of the successful latencies sorted ascending; the
\* latencies [100,200,300,400,500] give p50 = 300 and p95 = 500.
C9_PercentilesByIndex ==
    pc = "aggregated" =>
        /\ \A m \in DOMAIN aggregated :
              LET S == SuccessfulOf(m)
                  n == Cardinality(S)
              IN  /\ n >= 1
                  /\ IsOrderStatistic(aggregated[m].p50_latency_ms, S,
                                      n \div 2)
                  /\ IsOrderStatistic(aggregated[m].p95_latency_ms, S,
                                      (n * 95) \div 100)
        /\ \A m \in ToSet(methods) :
              SuccessfulOf(m) # {} => m \in DOMAIN aggregated
        /\ all_results = [k \in 1..5 |-> SuccessWithLatency(100 * k)] =>
              /\ aggregated["zero_shot"].p50_latency_ms = 300
              /\ aggregated["zero_shot"].p95_latency_ms = 500

\* C9 witness: the five latencies 100..500, given unsorted and with a failed
\* record among them, have been aggregated to p50 = 300 and p95 = 500.
C9_Witness ==
    /\ pc = "aggregated"
    /\ Len(all_results) = 5
    /\ all_results[1].success /\ LatencyAt(1) = 500
    /\ all_results[2].success /\ LatencyAt(2) = 100
    /\ ~all_results[3].success
    /\ all_results[4].success /\ LatencyAt(4) = 300
    /\ all_results[5].success /\ LatencyAt(5) = 200
    /\ aggregated["zero_shot"].p50_latency_ms = 300
    /\ aggregated["zero_shot"].p95_latency_ms = 500

\* C10: when evaluate_test_set returns, the bundle stored at the location it
\* returns holds the test cases, the strategies, the record sequence and the
\* aggregated statistics of this run, identical to what is returned.
C10_PersistedBundleIsTheRun ==
    Returned =>
        LET bundle == JsonLoad(fs[ret.output_file])
        IN  /\ bundle.test_queries = test_queries
            /\ bundle.methods = methods
            /\ bundle.results = ret.individual_results
            /\ bundle.aggregated = ret.aggregated
            /\ ret.individual_results = all_results
            /\ ret.aggregated = aggregated

\* C10 witness: a returned run whose bundle holds a failed record, a
\* successful record with null correctness and a non-empty aggregate.
C10_Witness ==
    /\ Returned
    /\ fs[ret.output_file] # PriorContent
    /\ DOMAIN ret.aggregated # {}
    /\ \E k1, k2 \in 1..Len(ret.individual_results) :
          /\ ~ret.individual_results[k1].success
          /\ ret.individual_results[k2].success
          /\ ret.individual_results[k2].correctness = None
          /\ fs[ret.output_file].results[k2].correctness = JsonNull

\* Both interleaved calls have returned
BothReturned == peer # None /\ pc = "done" /\ peer.pc = "done"

\* C11: when two interleaved evaluate_test_set calls have both returned, the
\* bundle at the location returned to each caller holds the test cases,
\* records and aggregates of that caller's own run.
C11_EachCallerFindsItsOwnBundle ==
    BothReturned =>
        /\ JsonLoad(fs[ret.output_file]).test_queries = test_queries
        /\ JsonLoad(fs[ret.output_file]).results = ret.individual_results
        /\ JsonLoad(fs[ret.output_file]).aggregated = ret.aggregated
        /\ JsonLoad(fs[peer.ret.output_file]).test_queries = peer.test_queries
        /\ JsonLoad(fs[peer.ret.output_file]).results
              = peer.ret.individual_results
        /\ JsonLoad(fs[peer.ret.output_file]).aggregated
              = peer.ret.aggregated

\* The executor behaved alike in calls k1 and k2: it raised the same error,
\* or it returned the same answer and the same citations.
SameExecution(k1, k2) ==
    \/ /\ execLog[k1].raised
       /\ execLog[k2].raised
       /\ execLog[k1].message = execLog[k2].message
    \/ /\ ~execLog[k1].raised
       /\ ~execLog[k2].raised
       /\ execLog[k1].value.answer = execLog[k2].value.answer
       /\ execLog[k1].value.citations = execLog[k2].value.citations

\* Two records agree on every field except the latency score
AgreeExceptLatency(r1, r2) ==
    /\ DOMAIN r1 = DOMAIN r2
    /\ \A f \in DOMAIN r1 \ {"latency"} : r1[f] = r2[f]

\* C12: two evaluate_query calls with the same query, strategy and
\* expectations, in which the executor returned the same answer and
\* citations (or raised the same error), yield records that agree on every
\* field except the latency score.
C12_IdempotentUpToLatency ==
    pc = "query" =>
        \A k1, k2 \in 1..Len(all_results) :
            SameExecution(k1, k2) =>
                AgreeExceptLatency(all_results[k1], all_results[k2])

\* C12 witness: two successful calls with the same answer and citations and
\* different measured latencies, whose records carry correctness scores and
\* differ in the latency score.
C12_Witness ==
    /\ pc = "query"
    /\ Len(all_results) = 2
    /\ SameExecution(1, 2)
    /\ all_results[1].success
    /\ all_results[1].correctness # None
    /\ execLog[1].value.latency_ms # execLog[2].value.latency_ms
    /\ all_results[1].latency # all_results[2].latency
    /\ all_results[1].cost = all_results[2].cost

\* The function fn has been called on its own and has returned
Called(fn) == pc = "returned" /\ args.fn = fn

\* a occurs in b as a contiguous run of characters
Occurs(a, b) ==
    \E i \in 0..Len(b) : \E j \in i..Len(b) :
        [k \in 1..(j - i) |-> b[i + k]] = a

\* C13: exact_match is true iff, after lower-casing both, the expected answer
\* occurs in the answer or the answer occurs in the expected answer;
\* correctness_score is 1 when exact_match holds and keyword_score
\* otherwise; "Revenue grew to $125 million" against "revenue growth" with
\* keywords [revenue, growth] gives exact_match false and score 1/2.
C13_ExactMatchEitherDirection ==
    Called("evaluate_answer_correctness") =>
        LET a == Lower(args.answer)
            e == Lower(args.expected_answer)
        IN  /\ ret.exact_match <=> (Occurs(e, a) \/ Occurs(a, e))
            /\ ret.exact_match => ret.correctness_score = FracInt(1)
            /\ ~ret.exact_match => ret.correctness_score = ret.keyword_score
            /\ ( /\ args.answer = AnswerRevenue
                 /\ args.expected_answer = ExpectedGrowth
                 /\ args.expected_keywords = Some(<<Kw_revenue, Kw_growth>>) )
               => /\ ret.exact_match = FALSE
                  /\ ret.correctness_score = Frac(1, 2)

\* C13 witness: the documented example has been evaluated, with no match in
\* either direction and a score of 1/2.
C13_Witness ==
    /\ Called("evaluate_answer_correctness")
    /\ args.answer = AnswerRevenue
    /\ args.expected_answer = ExpectedGrowth
    /\ args.expected_keywords = Some(<<Kw_revenue, Kw_growth>>)
    /\ ~ret.exact_match
    /\ ret.correctness_score = Frac(1, 2)

\* C14: found_keywords and missing_keywords are disjoint and together hold
\* every expected keyword; a keyword is found iff its lower-cased form occurs
\* in the lower-cased answer; keyword_score = |found| / |expected| lies in
\* [0,1] and is 0 when no expected keywords are given.
C14_KeywordPartition ==
    Called("evaluate_answer_correctness") =>
        LET kws == OrEmpty(args.expected_keywords)
            found == ToSet(ret.found_keywords)
            missing == ToSet(ret.missing_keywords)
        IN  /\ found \cap missing = {}
            /\ found \cup missing = ToSet(kws)
            /\ Len(ret.found_keywords) + Len(ret.missing_keywords) = Len(kws)
            /\ \A kw \in ToSet(kws) :
                  kw \in found <=> Occurs(Lower(kw), Lower(args.answer))
            /\ kws # <<>> =>
                  ret.keyword_score = Frac(Len(ret.found_keywords), Len(kws))
            /\ FracLeq(FracInt(0), ret.keyword_score)
            /\ FracLeq(ret.keyword_score, FracInt(1))
            /\ kws = <<>> => ret.keyword_score = FracInt(0)

\* C14 witness: a call with a keyword found only after lower-casing, a
\* repeated keyword and a missing keyword.
C14_Witness ==
    /\ Called("evaluate_answer_correctness")
    /\ Len(ret.found_keywords) = 2
    /\ Len(ret.missing_keywords) = 1
    /\ ret.keyword_score = Frac(2, 3)
    /\ \E k \in 1..Len(ret.found_keywords) :
          ~Occurs(ret.found_keywords[k], args.answer)

\* The distinct source identifiers of a citation list ('' for a citation
\* without a source)
CitedSet(citations) ==
    {IF "source" \in DOMAIN citations[k] THEN citations[k].source ELSE "" :
        k \in 1..Len(citations)}

\* C15: for a non-empty citation list and a non-empty expected-source list,
\* precision = |cited /\ expected| / |cited| and recall =
\* |cited /\ expected| / |expected| over the sets of distinct source
\* identifiers, both in [0,1]; citing a source once more changes neither
\* value; cited {a.txt, b.txt} against expected {a.txt, c.txt} gives 1/2
\* and 1/2.
C15_PrecisionRecallOverSets ==
    ( /\ Called("evaluate_source_citation_accuracy")
      /\ args.citations # <<>>
      /\ Truthy(args.expected_sources) ) =>
        LET cited == CitedSet(args.citations)
            expected == ToSet(args.expected_sources[1])
            common == Cardinality(cited \cap expected)
            again == evaluate_source_citation_accuracy(
                         Append(args.citations, args.citations[1]),
                         args.expected_sources)
        IN  /\ ret.precision = Frac(common, Cardinality(cited))
            /\ ret.recall = Frac(common, Cardinality(expected))
            /\ FracLeq(FracInt(0), ret.precision)
            /\ FracLeq(ret.precision, FracInt(1))
            /\ FracLeq(FracInt(0), ret.recall)
            /\ FracLeq(ret.recall, FracInt(1))
            /\ again.precision = ret.precision
            /\ again.recall = ret.recall
            /\ (cited = {"a.txt", "b.txt"} /\ expected = {"a.txt", "c.txt"})
               => /\ ret.precision = Frac(1, 2)
                  /\ ret.recall = Frac(1, 2)

\* C15 witness: a.txt cited twice and b.txt once against expected
\* [a.txt, c.txt]: precision 1/2 and recall 1/2.
C15_Witness ==
    /\ Called("evaluate_source_citation_accuracy")
    /\ Len(args.citations) = 3
    /\ CitedSet(args.citations) = {"a.txt", "b.txt"}
    /\ args.expected_sources = Some(<<"a.txt", "c.txt">>)
    /\ ret.precision = Frac(1, 2)
    /\ ret.recall = Frac(1, 2)

\* C16: an empty citation list yields has_citations false, count 0,
\* precision 0 and recall 0 whatever the expected sources are, also when
\* none are given; a non-empty citation list with no expected sources given
\* (None or an empty list) yields has_citations true and precision =
\* recall = 1.
C16_NoDataBranchesDistinct ==
    Called("evaluate_source_citation_accuracy") =>
        /\ args.citations = <<>> =>
              /\ ret.has_citations = FALSE
              /\ ret.citation_count = 0
              /\ ret.precision = FracInt(0)
              /\ ret.recall = FracInt(0)
        /\ (args.citations # <<>> /\ ~Truthy(args.expected_sources)) =>
              /\ ret.has_citations = TRUE
              /\ ret.precision = FracInt(1)
              /\ ret.recall = FracInt(1)

\* C16 witness: no citations and no expected sources: precision and recall
\* are 0, not 1.
C16_Witness ==
    /\ Called("evaluate_source_citation_accuracy")
    /\ args.citations = <<>>
    /\ args.expected_sources = None
    /\ ret.has_citations = FALSE
    /\ ret.precision = FracInt(0)
    /\ ret.recall = FracInt(0)

\* The indices of the analysed records that carry cost data
CostBearing == {k \in 1..Len(args.evaluation_results) :
                    "cost" \in DOMAIN args.evaluation_results[k]}

\* The sum over the cost-bearing records in K of the field `key` of their
\* cost data (0 where the field is missing)
RECURSIVE CostFieldSum(_, _)
CostFieldSum(K, key) ==
    IF K = {} THEN 0
    ELSE LET k == CHOOSE x \in K : TRUE
             cost_info == args.evaluation_results[k].cost
         IN  (IF key \in DOMAIN cost_info THEN cost_info[key] ELSE 0)
             + CostFieldSum(K \ {k}, key)

\* C17: main_cost_driver is whichever of prompt tokens and completion tokens
\* accounts for the larger part of the monetary cost of the analysed
\* records.
C17_DriverByMonetaryShare ==
    Called("analyze_cost_drivers") =>
        LET prompt_cost == CostFieldSum(CostBearing, "prompt_cost_usd")
            completion_cost == CostFieldSum(CostBearing, "completion_cost_usd")
        IN  /\ prompt_cost > completion_cost =>
                  ret.main_cost_driver = "prompt"
            /\ completion_cost > prompt_cost =>
                  ret.main_cost_driver = "completion"

\* C18: analyze_cost_drivers sums prompt tokens, completion tokens and total
\* cost over the records that carry cost data and divides each sum by the
\* number of all records passed in; records without cost data count in the
\* divisor only; an empty list yields averages of 0.
C18_AveragesOverAllRecords ==
    Called("analyze_cost_drivers") =>
        LET n == Len(args.evaluation_results)
            prompt_tokens == CostFieldSum(CostBearing, "prompt_tokens")
            completion_tokens == CostFieldSum(CostBearing, "completion_tokens")
            cost == CostFieldSum(CostBearing, "total_cost_usd")
        IN  /\ ret.total_queries = n
            /\ ret.total_cost_usd = cost
            /\ n > 0 =>
                  /\ ret.avg_prompt_tokens = Frac(prompt_tokens, n)
                  /\ ret.avg_completion_tokens = Frac(completion_tokens, n)
                  /\ ret.avg_cost_per_query_usd = Frac(cost, n)
            /\ n = 0 =>
                  /\ ret.avg_prompt_tokens = FracInt(0)
                  /\ ret.avg_completion_tokens = FracInt(0)
                  /\ ret.avg_cost_per_query_usd = FracInt(0)

\* C18 witness: a failed record and a record with 600 prompt tokens have
\* been analysed: the average is 300 prompt tokens per record.
C18_Witness ==
    /\ Called("analyze_cost_drivers")
    /\ Len(args.evaluation_results) = 2
    /\ Cardinality(CostBearing) = 1
    /\ ret.avg_prompt_tokens = FracInt(300)
    /\ ret.avg_completion_tokens = FracInt(200)
    /\ ret.avg_cost_per_query_usd = FracInt(16500)

\* C19: prompt_cost_percentage = promptTokens / (promptTokens +
\* completionTokens) x 100, and 0 when both totals are 0; main_cost_driver is
\* 'prompt' iff prompt_cost_percentage > completion_cost_percentage, so an
\* even split and the all-zero case report 'completion'.
C19_PercentageAndStrictDriver ==
    Called("analyze_cost_drivers") =>
        LET prompt_tokens == CostFieldSum(CostBearing, "prompt_tokens")
            completion_tokens == CostFieldSum(CostBearing, "completion_tokens")
        IN  /\ prompt_tokens + completion_tokens > 0 =>
                  ret.prompt_cost_percentage =
                      Frac(prompt_tokens * 100,
                           prompt_tokens + completion_tokens)
            /\ prompt_tokens + completion_tokens = 0 =>
                  ret.prompt_cost_percentage = FracInt(0)
            /\ ret.main_cost_driver \in {"prompt", "completion"}
            /\ ret.main_cost_driver = "prompt" <=>
                  FracLess(ret.completion_cost_percentage,
                           ret.prompt_cost_percentage)
            /\ prompt_tokens = completion_tokens =>
                  ret.main_cost_driver = "completion"

\* C19 witness: as many prompt tokens as completion tokens, more than zero:
\* 50 per cent and 'completion'.
C19_Witness ==
    /\ Called("analyze_cost_drivers")
    /\ CostFieldSum(CostBearing, "prompt_tokens") > 0
    /\ ret.prompt_cost_percentage = FracInt(50)
    /\ ret.completion_cost_percentage = FracInt(50)
    /\ ret.main_cost_driver = "completion"

\* The position of a strategy in the fixed order
StrategyRank ==
    [st \in {"reduce_prompt_size", "use_cheaper_model", "implement_caching",
             "optimize_chunking", "batch_processing"} |->
        CASE st = "reduce_prompt_size" -> 1
          [] st = "use_cheaper_model" -> 2
          [] st = "implement_caching" -> 3
          [] st = "optimize_chunking" -> 4
          [] st = "batch_processing" -> 5]

\* The strategies of the returned recommendations, as a set
Recommended == {ret[k].strategy : k \in 1..Len(ret)}

\* C20: the recommendations come in the fixed order reduce_prompt_size,
\* use_cheaper_model, implement_caching, optimize_chunking,
\* batch_processing, none twice; reduce_prompt_size is present iff
\* prompt_cost_percentage > 60, use_cheaper_model iff
\* avg_cost_per_query_usd > 0.01, the last three always; the list has 3, 4
\* or 5 entries (70% and 0.02 USD give all five, 40% and 0.005 USD the
\* three that are always present).
C20_RecommendationGating ==
    Called("generate_optimization_recommendations") =>
        LET analysis == args.cost_analysis
            share == IF "prompt_cost_percentage" \in DOMAIN analysis
                     THEN analysis.prompt_cost_percentage ELSE FracInt(0)
            cost == IF "avg_cost_per_query_usd" \in DOMAIN analysis
                    THEN analysis.avg_cost_per_query_usd ELSE FracInt(0)
        IN  /\ \A k \in 1..Len(ret) : ret[k].strategy \in DOMAIN StrategyRank
            /\ \A i, j \in 1..Len(ret) :
                  i < j => StrategyRank[ret[i].strategy]
                             < StrategyRank[ret[j].strategy]
            /\ "reduce_prompt_size" \in Recommended <=>
                  share.num > 60 * share.den
            /\ "use_cheaper_model" \in Recommended <=>
                  cost.num > 1000000 * cost.den
            /\ {"implement_caching", "optimize_chunking", "batch_processing"}
                  \subseteq Recommended
            /\ Len(ret) \in {3, 4, 5}
            /\ (share = FracInt(70) /\ cost = FracInt(2000000)) =>
                  Len(ret) = 5
            /\ (share = FracInt(40) /\ cost = FracInt(500000)) =>
                  /\ Len(ret) = 3
                  /\ ret[1].strategy = "implement_caching"

\* C20 witness: a prompt share of 70% and an average cost of 0.02 USD have
\* given the five recommendations, reduce_prompt_size first.
C20_Witness ==
    /\ Called("generate_optimization_recommendations")
    /\ "prompt_cost_percentage" \in DOMAIN args.cost_analysis
    /\ "avg_cost_per_query_usd" \in DOMAIN args.cost_analysis
    /\ args.cost_analysis.prompt_cost_percentage = FracInt(70)
    /\ args.cost_analysis.avg_cost_per_query_usd = FracInt(2000000)
    /\ Len(ret) = 5
    /\ ret[1].strategy = "reduce_prompt_size"
    /\ ret[2].strategy = "use_cheaper_model"
    /\ ret[5].strategy = "batch_processing"

\* The components of the returned bottlenecks, in order
Components == [k \in 1..Len(ret.bottlenecks) |-> ret.bottlenecks[k].component]

\* C21: scaled_volume = current_volume x 10, scaled_daily_cost =
\* (current_cost_per_1k / 1000) x scaled_volume, scaled_monthly_cost =
\* scaled_daily_cost x 30; the bottlenecks are Vector Database iff
\* scaled_volume > 10000, then LLM API iff scaled_daily_cost > 1000, then
\* Embedding Generation, always last; optimization_priority is 'cost' iff
\* scaled_daily_cost > 1000, else 'throughput'.  5 USD per 1k at a volume of
\* 2000 gives 20000, 100 USD, 3000 USD, Vector Database and Embedding
\* Generation, 'throughput'.
C21_ScaleProjection ==
    Called("estimate_10x_scale_costs") =>
        LET volume == IF args.current_volume = None THEN 1000
                      ELSE args.current_volume[1]
            cost == args.current_cost_per_1k
            daily == ret.scaled_daily_cost_usd
            over == daily.num > 1000 * daily.den
        IN  /\ ret.scaled_volume = volume * 10
            /\ daily = Frac(cost.num * volume, cost.den * 100)
            /\ ret.scaled_monthly_cost_usd = Frac(daily.num * 30, daily.den)
            /\ Components =
                  (IF volume * 10 > 10000 THEN <<"Vector Database">> ELSE <<>>)
                  \o (IF over THEN <<"LLM API">> ELSE <<>>)
                  \o <<"Embedding Generation">>
            /\ ret.optimization_priority = (IF over THEN "cost" ELSE "throughput")
            /\ ("LLM API" \in ToSet(Components)) <=>
                  ret.optimization_priority = "cost"
            /\ (cost = FracInt(5) /\ volume = 2000) =>
                  /\ ret.scaled_volume = 20000
                  /\ daily = FracInt(100)
                  /\ ret.scaled_monthly_cost_usd = FracInt(3000)
                  /\ Components = <<"Vector Database", "Embedding Generation">>
                  /\ ret.optimization_priority = "throughput"

\* C21 witness: 5 USD per 1k queries at a volume of 2000 has been projected.
C21_Witness ==
    /\ Called("estimate_10x_scale_costs")
    /\ args.current_cost_per_1k = FracInt(5)
    /\ args.current_volume = Some(2000)
    /\ ret.scaled_daily_cost_usd = FracInt(100)
    /\ Components = <<"Vector Database", "Embedding Generation">>
    /\ ret.optimization_priority = "throughput"

\* One of the two cost computations has been called and has returned
CostComputed ==
    pc = "returned" /\ args.fn \in {"evaluate_cost", "calculate_query_cost"}

\* The price entry that applies to the call: the model's entry in the
\* function's own table, or that of gpt-4o-mini
PriceApplied ==
    LET table == IF args.fn = "evaluate_cost" THEN Pricing ELSE AnalyzerPricing
    IN  IF args.model \in DOMAIN table
        THEN table[args.model] ELSE table["gpt-4o-mini"]

\* C22: each cost component is tokens / 1,000,000 x price per million
\* (tokens x price in cents per million, in units of 1e-8 USD),
\* total_cost_usd is the sum of the components the function reports, and
\* cost_per_1k_queries_usd is total_cost_usd x 1000.
C22_CostComponents ==
    CostComputed =>
        /\ ret.prompt_cost_usd = args.prompt_tokens * PriceApplied.prompt
        /\ ret.completion_cost_usd
              = args.completion_tokens * PriceApplied.completion
        /\ args.fn = "calculate_query_cost" =>
              /\ ret.embedding_cost_usd = args.embedding_tokens * 2
              /\ ret.total_cost_usd = ret.prompt_cost_usd
                                      + ret.completion_cost_usd
                                      + ret.embedding_cost_usd
        /\ args.fn = "evaluate_cost" =>
              /\ "embedding_cost_usd" \notin DOMAIN ret
              /\ ret.total_cost_usd = ret.prompt_cost_usd
                                      + ret.completion_cost_usd
        /\ ret.cost_per_1k_queries_usd = ret.total_cost_usd * 1000

\* C22 witness: calculate_query_cost has returned a total made of three
\* non-zero components.
C22_Witness ==
    /\ CostComputed
    /\ args.fn = "calculate_query_cost"
    /\ args.model = "gpt-4o"
    /\ ret.prompt_cost_usd = 25000
    /\ ret.completion_cost_usd = 150000
    /\ ret.embedding_cost_usd = 100
    /\ ret.total_cost_usd = 175100

\* What the function called returns for gpt-4o-mini with the same token
\* counts
DefaultBreakdown ==
    IF args.fn = "evaluate_cost"
    THEN evaluate_cost(args.prompt_tokens, args.completion_tokens,
                       "gpt-4o-mini")
    ELSE calculate_query_cost("gpt-4o-mini", args.prompt_tokens,
                              args.completion_tokens, args.embedding_tokens)

\* The model name is not in the pricing table of the function called
UnknownModel ==
    args.model \notin (IF args.fn = "evaluate_cost"
                       THEN DOMAIN Pricing ELSE DOMAIN AnalyzerPricing)

WordEnds(text) ==
    {k \in 1..Len(text) :
        text[k] # " " /\ (k = Len(text) \/ text[k + 1] = " ")}

\* C24: for every answer and every min_length > 0, is_complete =
\* (char_count >= min_length and word_count >= 10) and completeness_score =
\* min(1, char_count / min_length); hence is_complete implies a score of 1.
\* (That a score of 1 does not imply is_complete is what the witness shows.)
C24_CompletenessScore ==
    (Called("evaluate_response_completeness") /\ args.min_length > 0) =>
        LET chars == Len(args.answer)
            words == Cardinality(WordEnds(args.answer))
        IN  /\ ret.char_count = chars
            /\ ret.word_count = words
            /\ ret.is_complete <=> (chars >= args.min_length /\ words >= 10)
            /\ chars >= args.min_length => ret.completeness_score = FracInt(1)
            /\ chars < args.min_length =>
                  ret.completeness_score = Frac(chars, args.min_length)
            /\ FracLeq(ret.completeness_score, FracInt(1))
            /\ ret.is_complete => ret.completeness_score = FracInt(1)

\* C24 witness: an answer of one word that is long enough in characters has
\* a score of 1 and is not complete.
C24_Witness ==
    /\ Called("evaluate_response_completeness")
    /\ args.min_length > 0
    /\ ret.char_count >= args.min_length
    /\ ret.word_count = 1
    /\ ret.completeness_score = FracInt(1)
    /\ ~ret.is_complete

\* C25: when evaluate_query is given expected keywords but no expected
\* answer, or when the executor's answer is the empty string, the record's
\* exact_match is false and its correctness_score is the fraction of the
\* expected keywords found in the answer.
C25_KeywordCoverageWithoutSubstring ==
    pc = "query" =>
        \A k \in 1..Len(all_results) :
            LET r == all_results[k]
                expect == Expectations(test_queries[1])
            IN  ( /\ r.success
                  /\ r.correctness # None
                  /\ \/ /\ Truthy(expect.expected_keywords)
                        /\ ~Truthy(expect.expected_answer)
                     \/ r.answer = <<>> )
                => /\ r.correctness.exact_match = FALSE
                   /\ r.correctness.correctness_score
                         = r.correctness.keyword_score

\* Every emitted entry is well formed with respect to the record list.
C26_EntriesWellFormed ==
    pc = "aggregated" =>
          /\ DOMAIN aggregated \subseteq ToSet(methods)
          /\ \A m \in DOMAIN aggregated :
                LET st == aggregated[m]
                    S == SuccessfulOf(m)
                IN  /\ st.total_queries = Cardinality(S)
                    /\ st.total_queries >= 1
                    /\ st.success_rate.num > 0
                    /\ st.success_rate.num <= st.success_rate.den
                    /\ st.success_rate.num * Cardinality(AttemptedOf(m))
                          = st.success_rate.den * Cardinality(S)
                    /\ st.p50_latency_ms <= st.p95_latency_ms
                    /\ \E k \in S : LatencyAt(k) = st.p50_latency_ms
                    /\ \E k \in S : LatencyAt(k) = st.p95_latency_ms

\* C26: _aggregate_results returns for every record list and every strategy
\* list; it emits entries for requested strategies only, and every entry has
\* total_queries >= 1 equal to the number of successful records of its
\* strategy, 0 < success_rate <= 1, and p50_latency_ms <= p95_latency_ms,
\* both being latencies of successful records of that strategy.
C26_AggregationTotal ==
    /\ pc \in {"aggregate", "aggregated"}
    /\ pc = "aggregate" =>
          DOMAIN _aggregate_results(all_results, methods)
              \subseteq ToSet(methods)
    /\ C26_EntriesWellFormed

\* C26 witness: records of two strategies, one of them with failed records
\* only, aggregated for a list that repeats a strategy: one entry.
C26_Witness ==
    /\ pc = "aggregated"
    /\ methods = <<"few_shot", "zero_shot", "few_shot">>
    /\ AttemptedOf("few_shot") # {}
    /\ SuccessfulOf("few_shot") = {}
    /\ Cardinality(SuccessfulOf("zero_shot")) = 2
    /\ Cardinality(AttemptedOf("zero_shot")) = 3
    /\ DOMAIN aggregated = {"zero_shot"}
    /\ aggregated["zero_shot"].p50_latency_ms = 300
    /\ aggregated["zero_shot"].success_rate = Frac(2, 3)

\* The run was left by an exception.
Raised == pc = "raised"

\* C27: when evaluate_test_set raises before the end of its loop (unknown
\* strategy name, or test case without 'query'), the results file keeps the
\* content it had before the call, no aggregation is computed, nothing is
\* returned of the records collected so far, and for an unknown strategy name
\* the executor was not invoked for that pair.
C27_NothingPersistedOnRaise ==
    Raised =>
        /\ exc \in {"KeyError", "ValueError"}
        /\ fs[OutputFile] = PriorContent
        /\ aggregated = <<>>
        /\ ret = None
        /\ exc = "KeyError" => "query" \notin DOMAIN test_queries[ci]
        /\ exc = "ValueError" =>
              /\ methods[mi] \notin MethodMap
              /\ \A k \in 1..Len(execLog) :
                    ~(execLog[k].case = ci /\ execLog[k].method = mi)

\* C27 witness: an unknown strategy name raises after records of an earlier
\* pair were collected and the executor had run for them.
C27_Witness ==
    /\ Raised
    /\ exc = "ValueError"
    /\ Len(all_results) >= 1
    /\ Len(execLog) >= 1
    /\ fs[OutputFile] = PriorContent
    /\ ret = None

\* C27 witness, the other cause: a test case without 'query' raises after a
\* complete first test case.
C27_WitnessKeyError ==
    /\ Raised
    /\ exc = "KeyError"
    /\ ci = 2
    /\ Len(all_results) >= 1

WrapperReturned == pc = "returned" /\ args.fn = "with_error_handling"

ErrorKinds ==
    {"out_of_scope", "timeout", "no_relevant_docs", "empty_response",
     "retrieval_failure", "malformed_input", "unexpected_error"}

\* The response is one the error handler made.
IsErrorResponse(r) ==
    /\ {"error", "answer", "citations"} \subseteq DOMAIN r
    /\ r.error \in ErrorKinds
    /\ r.answer # <<>>
    /\ r.citations = <<>>

\* The response is what func returned.
IsOwnResult(r) ==
    /\ args.outcome.kind = "return"
    /\ r = args.outcome.value
    /\ \E k \in 1..Len(execLog) : execLog[k].event = "completed"

\* C28: a call of the wrapped function never lets an Exception through; it
\* returns func's own result, and then the result has a non-empty 'answer',
\* or an error response with an 'error' of the seven kinds, an 'answer'
\* message and an empty 'citations' list.
C28_NeverPropagatesException ==
    /\ pc = "raised" => ~IsInstance(exc, "Exception")
    /\ WrapperReturned =>
          \/ /\ IsOwnResult(ret)
             /\ "answer" \in DOMAIN ret
             /\ ret.answer # <<>>
          \/ /\ ~IsOwnResult(ret)
             /\ IsErrorResponse(ret)

\* C28 witness: func returned a dict with an empty answer after retrieving
\* three documents; the caller receives the empty_response error response.
C28_Witness ==
    /\ WrapperReturned
    /\ args.outcome.kind = "return"
    /\ args.outcome.value # None
    /\ "answer" \in DOMAIN args.outcome.value
    /\ args.outcome.value.answer = <<>>
    /\ ret.error = "empty_response"
    /\ ret.retrieved_docs = 3

\* C29: with a scope_check, func is never invoked for a query the scope_check
\* rejects, whether the query is passed as a keyword argument or
\* positionally; the call returns the out_of_scope response.
C29_RejectedQueryNeverRuns ==
    (/\ args.fn = "with_error_handling"
     /\ args.scope_check = "documents_only"
     /\ ~ScopeCheckAccepts(args.query))
    => /\ execLog = <<>>
       /\ pc \in {"call", "returned"}
       /\ pc = "returned" => ret.error = "out_of_scope"

\* C30: a call returns within timeout_seconds, and a func that takes longer
\* than timeout_seconds has not run to completion when the timeout response
\* is produced.
C30_TimeoutBoundsCall ==
    WrapperReturned =>
        /\ clock <= args.timeout_seconds
        /\ "error" \in DOMAIN ret /\ ret.error = "timeout" =>
              \A k \in 1..Len(execLog) : execLog[k].event # "completed"

====
